---------------------------- MODULE Spec2Model ----------------------------
(***************************************************************************)
(* Adaptive streaming server: the quality decision engine                  *)
(* (server/controller.py), the file source (server/video_stream.py), the   *)
(* device source (server/camera_stream.py) and the MJPEG stream engine     *)
(* (server/stream_engine.py).                                              *)
(*                                                                         *)
(* The four classes share no state.  A behaviour exercises one object,     *)
(* named by `unit'; every specification below fixes or draws `unit' in its *)
(* initial state and the other objects keep their constructed state.       *)
(* The StreamController (server/stream_controller.py) owns one engine, one *)
(* VideoStream and at most one CameraStream; its units exercise them       *)
(* through the controller only.  The NetworkMonitor                        *)
(* (server/wifi_monitor.py) and the handlers that feed it and the engine   *)
(* (server/socket_handlers.py, server/app.py) are units of their own.      *)
(***************************************************************************)
EXTENDS Integers, Sequences, FiniteSets, TLC

VARIABLES
    unit,                 \* which object this behaviour exercises
    \* ---- AdaptiveQualityController (server/controller.py)
    now,                  \* time.time(), in seconds
    current_quality,      \* self.current_quality
    last_change_time,     \* self.last_change_time
    quality_history,      \* self.quality_history
    call,                 \* the latest call on the engine: arguments, locals, return value
    changes,              \* history variable: the last two changes of current_quality
    ae_pc,                \* the line each thread inside a method of the engine has reached
    ae_loc,               \* the arguments and locals of the call each such thread makes
    \* ---- VideoStream (server/video_stream.py)
    files,                \* environment: frame count of <base_path>_<suffix>.mp4, 0 = cannot be opened
    vtime,                \* time.time(), in half frame intervals (5 ms)
    vs_lock,              \* self.lock: the thread holding it, or NoThread
    vs_video,             \* self.video: the cv2.VideoCapture object
    vs_quality,           \* self.quality
    vs_width,             \* self.width
    vs_height,            \* self.height
    vs_is_playing,        \* self.is_playing
    vs_playback_speed,    \* self.playback_speed, in halves (2 is 1.0x)
    vs_current_frame_index, \* self.current_frame_index
    vs_total_frames,      \* self.total_frames
    vs_last_frame_time,   \* self.last_frame_time
    vs_handles,           \* capture handles this VideoStream opened and has not released
    vs_pc,                \* per thread: where it is in a VideoStream method
    vs_loc,               \* per thread: the quality argument of handle_set_quality
    vs_call,              \* the latest completed call on the VideoStream
    vs_wrapped,           \* history variable: a read hit the end of the file and no
                          \* frame was returned and no seek made since
    \* ---- CameraStream (server/camera_stream.py)
    cs_lock,              \* self.lock: the thread holding it, or NoThread
    cs_camera,            \* self.camera: the cv2.VideoCapture object
    cs_width,             \* self.width
    cs_height,            \* self.height
    cs_quality,           \* self.quality
    cs_handles,           \* capture handles this CameraStream opened and has not released
    cs_pc,                \* per thread: where it is in a CameraStream method
    cs_loc,               \* per thread: the locals of the method it runs
    cs_call,              \* the latest completed call on the CameraStream
    \* ---- StreamEngine (server/stream_engine.py)
    se_video_capture,     \* self.video_capture: the cv2.VideoCapture object, or None
    se_current_quality,   \* self.current_quality
    se_streaming,         \* self.streaming
    se_stream_thread,     \* self.stream_thread: the latest loop thread started
    se_current_frame,     \* self.current_frame
    se_handles,           \* capture handles this StreamEngine has open
    se_leaked,            \* history variable: a handle was dropped without release()
    se_wrapped,           \* history variable: a read hit the end of the file and no
                          \* frame was read since
    se_loop,              \* per loop thread: where it is in _stream_loop
    se_loop_loc,          \* per loop thread: the frame it is working on
    se_pc,                \* per caller: where it is in start or stop
    se_loc,               \* per caller: the capture object start has just created
    \* ---- StreamController (server/stream_controller.py)
    sc_current_source,    \* self.current_source
    sc_camera_stream,     \* self.camera_stream: None or the CameraStream object
    sc_control_mode,      \* self.control_mode
    sc_current_quality,   \* self.current_quality
    sc_loop,              \* per adaptive thread: where it is in
                          \* _adaptive_quality_loop, or dead
    sc_last_applied_quality, \* per adaptive thread: its local last_applied_quality
    sc_optimal_quality,   \* per adaptive thread: its local optimal_quality
    sc_pc,                \* the socket handler: where it is in set_source
    sc_reader,            \* the frame task: where it is in generate_frames
    sc_calls,             \* number of calls the socket handler has made
    sc_call,              \* the latest call of the socket handler that returned
    sc_running,           \* self.running
    sc_adaptive_quality_thread, \* self.adaptive_quality_thread: the thread it names
    sc_mode_call,         \* per concurrent caller: where it is in set_control_mode
    \* ---- NetworkMonitor (server/wifi_monitor.py) and the metric ingress
    nm_bandwidth_history,   \* self._bandwidth_history
    nm_latency_history,     \* self._latency_history
    nm_packet_loss_history, \* self._packet_loss_history
    nm_latest_metrics,    \* self._latest_metrics, in hundredths
    nm_pc,                \* per producer: where it is in _update_metrics
    nm_loc,               \* per producer: the locals of _update_metrics
    nm_recorded,          \* history variable: the samples recorded, in call order
    nm_returned,          \* history variable: number of _update_metrics calls returned
    in_call,              \* the latest request at the metric ingress
    nm_running            \* self.running

engineVars == <<now, current_quality, last_change_time, quality_history, call, changes,
                ae_pc, ae_loc>>

videoVars == <<files, vtime, vs_lock, vs_video, vs_quality, vs_width, vs_height,
               vs_is_playing, vs_playback_speed, vs_current_frame_index,
               vs_total_frames, vs_last_frame_time, vs_handles, vs_pc, vs_loc,
               vs_call, vs_wrapped>>

cameraVars == <<cs_lock, cs_camera, cs_width, cs_height, cs_quality, cs_handles,
                cs_pc, cs_loc, cs_call>>

streamVars == <<se_video_capture, se_current_quality, se_streaming,
                se_stream_thread, se_current_frame, se_handles, se_leaked,
                se_wrapped, se_loop, se_loop_loc, se_pc, se_loc>>

controlVars == <<sc_current_source, sc_camera_stream, sc_control_mode,
                 sc_current_quality, sc_loop, sc_last_applied_quality,
                 sc_optimal_quality, sc_pc, sc_reader, sc_calls, sc_call,
                 sc_running, sc_adaptive_quality_thread, sc_mode_call>>

monitorVars == <<nm_bandwidth_history, nm_latency_history, nm_packet_loss_history,
                 nm_latest_metrics, nm_pc, nm_loc, nm_recorded, nm_returned,
                 in_call, nm_running>>

vars == <<unit, engineVars, videoVars, cameraVars, streamVars, controlVars,
          monitorVars>>

----------------------------------------------------------------------------
(* Bounds of the model *)

MaxTime == 10
MaxHistory == 3
MaxFrames == 3        \* frames of the longest sample file
MaxVideoTicks == 2    \* clock ticks a VideoStream behaviour lasts
MaxLoops == 2         \* stream-loop threads of a StreamEngine alive at once
MaxCalls == 3         \* calls the socket handler makes on a StreamController
MaxRecords == 2       \* samples recorded beyond a full window of the monitor

----------------------------------------------------------------------------
(* server/config.py *)

Levels == {"low", "medium", "high"}

QUALITY_THRESHOLDS ==
    [low    |-> [resolution |-> <<640, 360>>,   bitrate |-> 500,
                 min_bandwidth |-> 0, max_latency |-> 500, max_packet_loss |-> 10],
     medium |-> [resolution |-> <<1280, 720>>,  bitrate |-> 1500,
                 min_bandwidth |-> 2, max_latency |-> 150, max_packet_loss |-> 5],
     high   |-> [resolution |-> <<1920, 1080>>, bitrate |-> 3000,
                 min_bandwidth |-> 5, max_latency |-> 75,  max_packet_loss |-> 2]]

QUALITY_STABILITY_PERIOD == 5

DEFAULT_QUALITY == "medium"

----------------------------------------------------------------------------
(* Inputs: metric samples.  A missing key of the metrics dict is Absent.   *)

Absent == -1

BandwidthValues  == {1, 2, 5}
LatencyValues    == {75, 150, 501}
PacketLossValues == {Absent, 2, 5}

Samples ==
    [bandwidth : BandwidthValues, latency : LatencyValues, packet_loss : PacketLossValues]

NoMetrics == [bandwidth |-> Absent, latency |-> Absent, packet_loss |-> Absent]

\* the samples of the example scenarios: a good network, then a poor one
Scenario1 == [bandwidth |-> 6, latency |-> 50, packet_loss |-> 1]

Scenario2 == [bandwidth |-> 1, latency |-> 300, packet_loss |-> 10]

\* quality strings a caller may pass to set_quality: the levels and an unknown one
QualityArgs == Levels \cup {"ultra"}

----------------------------------------------------------------------------
(* AdaptiveQualityController *)

\* behaviours of one engine: every sample, the samples of the scenarios, or a
\* long run of changes between two levels
EngineUnits == {"controller", "controller_scenario", "controller_history"}

\* behaviours of one engine on which the adaptive loop runs determine_quality
\* while a socket handler runs set_quality
ConcurrentEngineUnits == {"controller_threads"}

\* the adaptive loop's thread and the socket handler's
EngineThreads == {"loop", "handler"}

\* the locals of a thread that is in no method of the engine
NoEngineCall == [optimal_quality |-> DEFAULT_QUALITY, current_time |-> 0,
                 metrics |-> NoMetrics, quality |-> DEFAULT_QUALITY,
                 applied |-> FALSE]

\* behaviours of one StreamController: the socket handler and the adaptive
\* loop, or the socket handler and the frame task
ControllerUnits == {"stream_controller", "stream_controller_readers"}

\* behaviours of one StreamController in which two socket handlers run
\* set_control_mode at the same time
ConcurrentControllerUnits == {"stream_controller_modes"}

\* behaviours of one StreamController in which the frame task reads a source
\* while a socket handler runs set_source
SwapUnits == {"stream_controller_swap"}

\* the behaviours in which the adaptive loop runs
LoopUnits == ControllerUnits \cup ConcurrentControllerUnits

\* how long the clock is followed
TimeLimit ==
    IF unit \in LoopUnits \cup ConcurrentEngineUnits THEN QUALITY_STABILITY_PERIOD
    ELSE MaxTime

EngineSamples ==
    CASE unit = "controller_scenario" -> {Scenario1, Scenario2}
      [] unit = "controller_threads"  -> {Scenario1, Scenario2}
      [] unit = "controller_history"  -> {Scenario2}
      [] OTHER                        -> Samples

EngineQualities ==
    IF unit = "controller_history" THEN {"low", "medium"} ELSE QualityArgs

\* dict.get(key, default)
Get(metrics, key, default) ==
    IF metrics[key] = Absent THEN default ELSE metrics[key]

BandwidthMet_strict(bandwidth, min_bandwidth) == bandwidth > min_bandwidth

\* bandwidth >= QUALITY_THRESHOLDS[level]['min_bandwidth']
BandwidthMet(bandwidth, min_bandwidth) == bandwidth >= min_bandwidth

\* the three-way conjunction of lines 59-63 (high) and 65-69 (medium)
ThresholdMet(level, metrics) ==
    LET bandwidth   == Get(metrics, "bandwidth", 0)
        latency     == Get(metrics, "latency", 500)
        packet_loss == Get(metrics, "packet_loss", 15)
    IN  /\ BandwidthMet(bandwidth, QUALITY_THRESHOLDS[level].min_bandwidth)
        /\ latency <= QUALITY_THRESHOLDS[level].max_latency
        /\ packet_loss <= QUALITY_THRESHOLDS[level].max_packet_loss

\* optimal_quality of determine_quality: the if / elif / else ladder
OptimalQuality(metrics) ==
    IF ThresholdMet("high", metrics) THEN "high"
    ELSE IF ThresholdMet("medium", metrics) THEN "medium"
    ELSE "low"

StabilityElapsed_strict(current_time) ==
    (current_time - last_change_time) > QUALITY_STABILITY_PERIOD

StabilityElapsed_noPeriod(current_time) ==
    (current_time - last_change_time) >= 0

\* (current_time - self.last_change_time) >= self.quality_stability_period
StabilityElapsed(current_time) ==
    (current_time - last_change_time) >= QUALITY_STABILITY_PERIOD

HISTORY_LIMIT == 100

\* the changes of quality a behaviour makes: a few, or enough to fill the
\* history past its limit
HistoryCap ==
    IF unit = "controller_history" THEN HISTORY_LIMIT + MaxHistory ELSE MaxHistory

\* if len(self.quality_history) > 100: self.quality_history = self.quality_history[-100:]
TrimHistory(h) ==
    IF Len(h) > HISTORY_LIMIT
    THEN SubSeq(h, Len(h) - HISTORY_LIMIT + 1, Len(h))
    ELSE h

\* history variable: the time and the operation of the last two changes of
\* current_quality, most recent last
LogChange(op, new_quality) ==
    IF new_quality = current_quality THEN changes
    ELSE LET all == Append(changes, [at |-> now, by |-> op])
         IN  IF Len(all) > 2 THEN Tail(all) ELSE all

InitEngine ==
    /\ now = 0
    /\ current_quality = DEFAULT_QUALITY
    /\ last_change_time = 0
    /\ quality_history = <<DEFAULT_QUALITY>>
    /\ call = [op |-> "init", metrics |-> NoMetrics, quality |-> DEFAULT_QUALITY,
               optimal_quality |-> DEFAULT_QUALITY, applied |-> FALSE,
               ret |-> DEFAULT_QUALITY]
    /\ changes = <<>>
    /\ ae_pc = [t \in EngineThreads |-> "idle"]
    /\ ae_loc = [t \in EngineThreads |-> NoEngineCall]

\* time passes between calls
Tick ==
    /\ unit \in EngineUnits \cup ConcurrentEngineUnits \cup {"stream_controller"}
    /\ now < TimeLimit
    /\ now' = now + 1
    /\ UNCHANGED <<unit, current_quality, last_change_time, quality_history, call, changes>>
    /\ UNCHANGED <<ae_pc, ae_loc>>
    /\ UNCHANGED <<videoVars, cameraVars, streamVars, controlVars, monitorVars>>

QualityDiffers_always(optimal_quality) == TRUE

\* determine_quality, line 86: optimal_quality != self.current_quality
QualityDiffers(optimal_quality) == optimal_quality # current_quality

\* determine_quality on the engine's fields
DetermineQuality(metrics) ==
    LET optimal_quality == OptimalQuality(metrics)
        current_time    == now
        apply           == /\ QualityDiffers(optimal_quality)
                           /\ StabilityElapsed(current_time)
    IN  /\ current_quality' = IF apply THEN optimal_quality ELSE current_quality
        /\ last_change_time' = IF apply THEN current_time ELSE last_change_time
        /\ quality_history' =
              TrimHistory(IF apply THEN Append(quality_history, optimal_quality)
                                   ELSE quality_history)
        /\ call' = [op |-> "determine_quality", metrics |-> metrics,
                    quality |-> current_quality,
                    optimal_quality |-> optimal_quality, applied |-> apply,
                    ret |-> current_quality']
        /\ changes' = LogChange("determine_quality", current_quality')
        /\ UNCHANGED <<now, ae_pc, ae_loc>>

\* a call of determine_quality on an engine of its own
determine_quality(metrics) ==
    /\ unit \in EngineUnits
    /\ Len(quality_history) < HistoryCap
    /\ DetermineQuality(metrics)
    /\ UNCHANGED <<unit, videoVars, cameraVars, streamVars, controlVars, monitorVars>>

ManualChange_gated(quality) ==
    /\ quality \in DOMAIN QUALITY_THRESHOLDS
    /\ quality # current_quality
    /\ StabilityElapsed(now)

\* set_quality, lines 152-156: the level is known and differs from the current one
ManualChange(quality) ==
    /\ quality \in DOMAIN QUALITY_THRESHOLDS
    /\ quality # current_quality

\* the manual override, set_quality, on the engine's fields
SetQuality(quality) ==
    LET change == ManualChange(quality)
    IN  /\ current_quality' = IF change THEN quality ELSE current_quality
        /\ quality_history' = IF change THEN Append(quality_history, quality)
                                        ELSE quality_history
        /\ last_change_time' = IF change THEN now ELSE last_change_time
        /\ call' = [op |-> "set_quality", metrics |-> NoMetrics,
                    quality |-> current_quality,
                    optimal_quality |-> quality, applied |-> change,
                    ret |-> current_quality']
        /\ changes' = LogChange("set_quality", current_quality')
        /\ UNCHANGED <<now, ae_pc, ae_loc>>

\* a call of set_quality on an engine of its own
set_quality(quality) ==
    /\ unit \in EngineUnits
    /\ Len(quality_history) < HistoryCap
    /\ SetQuality(quality)
    /\ UNCHANGED <<unit, videoVars, cameraVars, streamVars, controlVars, monitorVars>>

EngineNext ==
    \/ Tick
    \/ \E metrics \in EngineSamples : determine_quality(metrics)
    \/ \E quality \in EngineQualities : set_quality(quality)

(* The engine has no lock: determine_quality, called by the adaptive loop's *)
(* thread, and set_quality, called by a socket handler's, interleave at    *)
(* every read and write of a field.                                        *)

AeGoto(t, line) == ae_pc' = [ae_pc EXCEPT ![t] = line]

AeOthers == UNCHANGED <<unit, videoVars, cameraVars, streamVars, controlVars, monitorVars>>

\* determine_quality, lines 51-85: the candidate and current_time = time.time()
ae_determine_call(metrics) ==
    /\ unit \in ConcurrentEngineUnits
    /\ ae_pc["loop"] = "idle"
    /\ Len(quality_history) < HistoryCap
    /\ AeGoto("loop", "line86")
    /\ ae_loc' = [ae_loc EXCEPT !["loop"] =
                     [optimal_quality |-> OptimalQuality(metrics),
                      current_time |-> now, metrics |-> metrics,
                      quality |-> current_quality, applied |-> FALSE]]
    /\ UNCHANGED <<now, current_quality, last_change_time, quality_history, call, changes>>
    /\ AeOthers

\* line 86: if optimal_quality != self.current_quality
ae_determine_differs ==
    /\ unit \in ConcurrentEngineUnits
    /\ ae_pc["loop"] = "line86"
    /\ AeGoto("loop", IF QualityDiffers(ae_loc["loop"].optimal_quality)
                      THEN "line87" ELSE "line100")
    /\ UNCHANGED <<now, current_quality, last_change_time, quality_history, call, changes,
                   ae_loc>>
    /\ AeOthers

\* line 87: if (current_time - self.last_change_time) >= self.quality_stability_period
ae_determine_stability ==
    /\ unit \in ConcurrentEngineUnits
    /\ ae_pc["loop"] = "line87"
    /\ AeGoto("loop", IF StabilityElapsed(ae_loc["loop"].current_time)
                      THEN "line91" ELSE "line100")
    /\ UNCHANGED <<now, current_quality, last_change_time, quality_history, call, changes,
                   ae_loc>>
    /\ AeOthers

\* line 91: self.current_quality = optimal_quality
ae_determine_set_quality ==
    /\ unit \in ConcurrentEngineUnits
    /\ ae_pc["loop"] = "line91"
    /\ current_quality' = ae_loc["loop"].optimal_quality
    /\ changes' = LogChange("determine_quality", current_quality')
    /\ ae_loc' = [ae_loc EXCEPT !["loop"].applied = TRUE]
    /\ AeGoto("loop", "line92")
    /\ UNCHANGED <<now, last_change_time, quality_history, call>>
    /\ AeOthers

\* line 92: self.last_change_time = current_time
ae_determine_set_time ==
    /\ unit \in ConcurrentEngineUnits
    /\ ae_pc["loop"] = "line92"
    /\ last_change_time' = ae_loc["loop"].current_time
    /\ AeGoto("loop", "line95")
    /\ UNCHANGED <<now, current_quality, quality_history, call, changes, ae_loc>>
    /\ AeOthers

\* line 95: self.quality_history.append(optimal_quality)
ae_determine_append ==
    /\ unit \in ConcurrentEngineUnits
    /\ ae_pc["loop"] = "line95"
    /\ quality_history' = Append(quality_history, ae_loc["loop"].optimal_quality)
    /\ AeGoto("loop", "line100")
    /\ UNCHANGED <<now, current_quality, last_change_time, call, changes, ae_loc>>
    /\ AeOthers

\* lines 100-103: the history is trimmed and self.current_quality returned
ae_determine_return ==
    /\ unit \in ConcurrentEngineUnits
    /\ ae_pc["loop"] = "line100"
    /\ quality_history' = TrimHistory(quality_history)
    /\ call' = [op |-> "determine_quality", metrics |-> ae_loc["loop"].metrics,
                quality |-> ae_loc["loop"].quality,
                optimal_quality |-> ae_loc["loop"].optimal_quality,
                applied |-> ae_loc["loop"].applied,
                ret |-> current_quality]
    /\ ae_loc' = [ae_loc EXCEPT !["loop"] = NoEngineCall]
    /\ AeGoto("loop", "idle")
    /\ UNCHANGED <<now, current_quality, last_change_time, changes>>
    /\ AeOthers

\* set_quality, lines 148-152: an unknown level, or the current one, returns
ae_set_call(quality) ==
    /\ unit \in ConcurrentEngineUnits
    /\ ae_pc["handler"] = "idle"
    /\ Len(quality_history) < HistoryCap
    /\ IF ManualChange(quality)
       THEN /\ AeGoto("handler", "line154")
            /\ ae_loc' = [ae_loc EXCEPT !["handler"] =
                             [NoEngineCall EXCEPT !.optimal_quality = quality,
                                                  !.quality = current_quality]]
            /\ UNCHANGED call
       ELSE /\ call' = [op |-> "set_quality", metrics |-> NoMetrics,
                        quality |-> current_quality,
                        optimal_quality |-> quality, applied |-> FALSE,
                        ret |-> current_quality]
            /\ UNCHANGED <<ae_pc, ae_loc>>
    /\ UNCHANGED <<now, current_quality, last_change_time, quality_history, changes>>
    /\ AeOthers

\* line 154: self.current_quality = quality
ae_set_quality ==
    /\ unit \in ConcurrentEngineUnits
    /\ ae_pc["handler"] = "line154"
    /\ current_quality' = ae_loc["handler"].optimal_quality
    /\ changes' = LogChange("set_quality", current_quality')
    /\ AeGoto("handler", "line155")
    /\ UNCHANGED <<now, last_change_time, quality_history, call, ae_loc>>
    /\ AeOthers

\* line 155: self.quality_history.append(quality)
ae_set_append ==
    /\ unit \in ConcurrentEngineUnits
    /\ ae_pc["handler"] = "line155"
    /\ quality_history' = Append(quality_history, ae_loc["handler"].optimal_quality)
    /\ AeGoto("handler", "line156")
    /\ UNCHANGED <<now, current_quality, last_change_time, call, changes, ae_loc>>
    /\ AeOthers

\* line 156: self.last_change_time = time.time()
ae_set_time ==
    /\ unit \in ConcurrentEngineUnits
    /\ ae_pc["handler"] = "line156"
    /\ last_change_time' = now
    /\ call' = [op |-> "set_quality", metrics |-> NoMetrics,
                quality |-> ae_loc["handler"].quality,
                optimal_quality |-> ae_loc["handler"].optimal_quality,
                applied |-> TRUE, ret |-> current_quality]
    /\ ae_loc' = [ae_loc EXCEPT !["handler"] = NoEngineCall]
    /\ AeGoto("handler", "idle")
    /\ UNCHANGED <<now, current_quality, quality_history, changes>>
    /\ AeOthers

ConcurrentEngineNext ==
    \/ Tick
    \/ \E metrics \in EngineSamples : ae_determine_call(metrics)
    \/ ae_determine_differs
    \/ ae_determine_stability
    \/ ae_determine_set_quality
    \/ ae_determine_set_time
    \/ ae_determine_append
    \/ ae_determine_return
    \/ \E quality \in EngineQualities : ae_set_call(quality)
    \/ ae_set_quality
    \/ ae_set_append
    \/ ae_set_time


----------------------------------------------------------------------------
(* VideoStream (server/video_stream.py) *)

NoThread == 0

\* playback_speed is kept in halves: SpeedDen stands for 1.0x
SpeedDen == 2

\* the speeds a caller passes to handle_set_speed: 0.5x, 1.0x, 1.5x, 2.0x
PlaybackSpeeds == {1, 2, 3, 4}

\* any number of a caller of handle_set_speed: -1.0x, 0, 1.0x, 1.5x
NumericSpeeds == {0 - 2, 0, 2, 3}

\* seek positions are fractions SeekNum / SeekDen: -0.5, -0.25, ..., 1.5
SeekDen == 4

SeekPositions == (0 - 2)..6

\* self.frame_interval = 1.0 / self.target_fps, in clock ticks
FRAME_INTERVAL == 2

\* time.time() when the VideoStream is constructed; self.last_frame_time starts
\* at 0, far in the past
VideoStartTime == 4

Suffixes == {"240", "360", "720"}

\* the sample files on disk: every file with MaxFrames frames, or a shorter low
\* file and no high file
FileSets ==
    { [x \in Suffixes |-> MaxFrames],
      [x \in Suffixes |-> CASE x = "240" -> MaxFrames - 1
                            [] x = "360" -> MaxFrames
                            [] x = "720" -> 0] }

Min(a, b) == IF a < b THEN a ELSE b

Max(a, b) == IF a > b THEN a ELSE b

\* _get_resolution_from_quality
VsResolution(quality) ==
    CASE quality = "low"    -> <<426, 240>>
      [] quality = "medium" -> <<640, 360>>
      [] quality = "high"   -> <<1280, 720>>
      [] OTHER              -> <<640, 360>>

\* _get_quality_suffix
VsQualitySuffix(quality) ==
    CASE quality = "low"    -> "240"
      [] quality = "medium" -> "360"
      [] quality = "high"   -> "720"
      [] OTHER              -> "360"

\* self.video = None
NoVideo == [opened |-> FALSE, file |-> "none", pos |-> 0]

\* a frame is its index in the file, the file it was decoded from, the size
\* it was resized to and, for the record, self.quality when it was read
NoFrame == [index |-> 0 - 1, file |-> "none", width |-> 0, height |-> 0,
            quality |-> "none"]

\* the locals of a thread outside handle_set_quality
NoLocals == [quality |-> "none", repeat |-> FALSE, changed |-> FALSE]

VsCall(op, level, result, frame, eof, reopened) ==
    [op |-> op, level |-> level, result |-> result, frame |-> frame,
     eof |-> eof, reopened |-> reopened, repeat |-> FALSE, changed |-> FALSE,
     position |-> 0, wrapped |-> FALSE]

\* if self.video: self.video.release()
VsRelease(video, handles) ==
    IF video.opened THEN handles - 1 ELSE handles

OpenAt_start(current_frame_index, n) == 0

\* open_video, line 55: self.video.set(cv2.CAP_PROP_POS_FRAMES, self.current_frame_index)
\* on a file of n frames
OpenAt(current_frame_index, n) == Min(Max(current_frame_index, 0), n)

\* open_video: the new capture object, total_frames and the open handles
VsOpenVideo(video, handles, quality, current_frame_index, total_frames) ==
    LET released   == VsRelease(video, handles)
        video_file == VsQualitySuffix(quality)
        n          == files[video_file]
    IN  IF n = 0
        THEN [video |-> [opened |-> FALSE, file |-> video_file, pos |-> 0],
              total_frames |-> total_frames,
              handles |-> released]
        ELSE [video |-> [opened |-> TRUE, file |-> video_file,
                         pos |-> OpenAt(current_frame_index, n)],
              total_frames |-> n,
              handles |-> released + 1]

\* behaviours of one VideoStream: one caller, two callers, or one caller that
\* passes any number to handle_set_speed
VideoUnits == {"video", "video_threads", "video_speeds"}

\* the threads calling into the object: one caller at a time, or two
Threads ==
    IF unit \in {"video_threads", "camera_threads", "stream_engine_threads",
                 "network_monitor_threads"}
    THEN {1, 2}
    ELSE {1}

\* with two callers, the speed and the seek position are 1.0x and 0.5
VsSpeeds ==
    CASE unit = "video"        -> PlaybackSpeeds
      [] unit = "video_speeds" -> NumericSpeeds
      [] OTHER                 -> {SpeedDen}

VsPositions == IF unit = "video" THEN SeekPositions ELSE {SeekDen \div 2}

InitVideo ==
    /\ files \in (IF unit \in VideoUnits THEN FileSets
                                          ELSE {[x \in Suffixes |-> MaxFrames]})
    /\ vtime = VideoStartTime
    /\ vs_lock = NoThread
    /\ vs_quality = "medium"
    /\ vs_width = VsResolution("medium")[1]
    /\ vs_height = VsResolution("medium")[2]
    /\ vs_is_playing = TRUE
    /\ vs_playback_speed = SpeedDen
    /\ vs_current_frame_index = 0
    /\ vs_last_frame_time = 0
    /\ LET o == VsOpenVideo(NoVideo, 0, "medium", 0, 0)
       IN  /\ vs_video = o.video
           /\ vs_total_frames = o.total_frames
           /\ vs_handles = o.handles
    /\ vs_pc = [t \in {1, 2} |-> "idle"]
    /\ vs_loc = [t \in {1, 2} |-> NoLocals]
    /\ vs_call = VsCall("init", "medium", "done", NoFrame, FALSE, FALSE)
    /\ vs_wrapped = FALSE

VideoTick ==
    /\ unit \in VideoUnits
    /\ vtime < VideoStartTime + MaxVideoTicks
    /\ vtime' = vtime + 1
    /\ UNCHANGED <<files, vs_lock, vs_video, vs_quality, vs_width, vs_height,
                   vs_is_playing, vs_playback_speed, vs_current_frame_index,
                   vs_total_frames, vs_last_frame_time, vs_handles, vs_pc, vs_loc,
                   vs_call>>
    /\ UNCHANGED <<vs_wrapped, unit, engineVars, cameraVars, streamVars, controlVars, monitorVars>>

VsLockFree_setQualityUnlocked(t, op) ==
    op = "handle_set_quality" \/ vs_lock = NoThread

\* with self.lock: the lock can be taken
VsLockFree(t, op) == vs_lock = NoThread

\* handle_set_quality with a quality that is not a level: lines 59-62
vs_handle_set_quality_invalid(t, quality) ==
    /\ unit \in VideoUnits
    /\ vs_pc[t] = "idle"
    /\ quality \notin {"low", "medium", "high"}
    /\ vs_call' = VsCall("handle_set_quality", quality, "invalid", NoFrame, FALSE, FALSE)
    /\ UNCHANGED <<files, vtime, vs_lock, vs_video, vs_quality, vs_width, vs_height,
                   vs_is_playing, vs_playback_speed, vs_current_frame_index,
                   vs_total_frames, vs_last_frame_time, vs_handles, vs_pc, vs_loc>>
    /\ UNCHANGED <<vs_wrapped, unit, engineVars, cameraVars, streamVars, controlVars, monitorVars>>

\* handle_set_quality: lines 59-64, up to the lock
vs_handle_set_quality_enter(t, quality) ==
    /\ unit \in VideoUnits
    /\ vs_pc[t] = "idle"
    /\ quality \in {"low", "medium", "high"}
    /\ VsLockFree(t, "handle_set_quality")
    /\ vs_lock' = t
    /\ vs_pc' = [vs_pc EXCEPT ![t] = "vsq_fields"]
    /\ vs_loc' = [vs_loc EXCEPT ![t] =
                     [quality |-> quality,
                      repeat  |-> /\ vs_call.op = "handle_set_quality"
                                  /\ vs_call.result = "done"
                                  /\ vs_call.level = quality,
                      changed |-> FALSE]]
    /\ UNCHANGED <<files, vtime, vs_video, vs_quality, vs_width, vs_height,
                   vs_is_playing, vs_playback_speed, vs_current_frame_index,
                   vs_total_frames, vs_last_frame_time, vs_handles, vs_call>>
    /\ UNCHANGED <<vs_wrapped, unit, engineVars, cameraVars, streamVars, controlVars, monitorVars>>

\* handle_set_quality: lines 65-69, self.quality and self.width
vs_handle_set_quality_fields(t) ==
    /\ unit \in VideoUnits
    /\ vs_pc[t] = "vsq_fields"
    /\ vs_current_frame_index' =
          IF vs_video.opened THEN vs_video.pos ELSE vs_current_frame_index
    /\ vs_quality' = vs_loc[t].quality
    /\ vs_width' = VsResolution(vs_loc[t].quality)[1]
    /\ vs_pc' = [vs_pc EXCEPT ![t] = "vsq_height"]
    /\ vs_loc' = [vs_loc EXCEPT ![t].changed =
                     \/ vs_current_frame_index' # vs_current_frame_index
                     \/ vs_quality' # vs_quality
                     \/ vs_width' # vs_width]
    /\ UNCHANGED <<files, vtime, vs_lock, vs_video, vs_height,
                   vs_is_playing, vs_playback_speed,
                   vs_total_frames, vs_last_frame_time, vs_handles, vs_call>>
    /\ UNCHANGED <<vs_wrapped, unit, engineVars, cameraVars, streamVars, controlVars, monitorVars>>

\* handle_set_quality: line 69, self.height
vs_handle_set_quality_height(t) ==
    /\ unit \in VideoUnits
    /\ vs_pc[t] = "vsq_height"
    /\ vs_height' = VsResolution(vs_loc[t].quality)[2]
    /\ vs_pc' = [vs_pc EXCEPT ![t] = "vsq_open"]
    /\ vs_loc' = [vs_loc EXCEPT ![t].changed = @ \/ vs_height' # vs_height]
    /\ UNCHANGED <<files, vtime, vs_lock, vs_video, vs_quality, vs_width,
                   vs_is_playing, vs_playback_speed, vs_current_frame_index,
                   vs_total_frames, vs_last_frame_time, vs_handles, vs_call>>
    /\ UNCHANGED <<vs_wrapped, unit, engineVars, cameraVars, streamVars, controlVars, monitorVars>>

\* handle_set_quality: lines 70-71, open_video() and the end of the with block
vs_handle_set_quality_open(t) ==
    /\ unit \in VideoUnits
    /\ vs_pc[t] = "vsq_open"
    /\ LET o == VsOpenVideo(vs_video, vs_handles, vs_quality,
                            vs_current_frame_index, vs_total_frames)
       IN  /\ vs_video' = o.video
           /\ vs_total_frames' = o.total_frames
           /\ vs_handles' = o.handles
           /\ vs_call' =
                 [VsCall("handle_set_quality", vs_loc[t].quality, "done", NoFrame,
                         FALSE, vs_video.opened \/ o.video.opened)
                    EXCEPT !.repeat = vs_loc[t].repeat,
                           !.position = vs_current_frame_index,
                           !.changed = \/ vs_loc[t].changed
                                       \/ o.video # vs_video
                                       \/ o.total_frames # vs_total_frames]
    /\ vs_lock' = NoThread
    /\ vs_pc' = [vs_pc EXCEPT ![t] = "idle"]
    /\ vs_loc' = [vs_loc EXCEPT ![t] = NoLocals]
    /\ UNCHANGED <<files, vtime, vs_quality, vs_width, vs_height,
                   vs_is_playing, vs_playback_speed, vs_current_frame_index,
                   vs_last_frame_time>>
    /\ UNCHANGED <<vs_wrapped, unit, engineVars, cameraVars, streamVars, controlVars, monitorVars>>

\* with self.lock of handle_play_pause, handle_set_speed, handle_seek, read_frame
vs_acquire(t, op) ==
    /\ unit \in VideoUnits
    /\ vs_pc[t] = "idle"
    /\ VsLockFree(t, op)
    /\ vs_lock' = t
    /\ vs_pc' = [vs_pc EXCEPT ![t] = op]
    /\ UNCHANGED <<files, vtime, vs_video, vs_quality, vs_width, vs_height,
                   vs_is_playing, vs_playback_speed, vs_current_frame_index,
                   vs_total_frames, vs_last_frame_time, vs_handles, vs_loc, vs_call>>
    /\ UNCHANGED <<vs_wrapped, unit, engineVars, cameraVars, streamVars, controlVars, monitorVars>>

vs_handle_play_pause(t, is_playing) ==
    /\ unit \in VideoUnits
    /\ vs_pc[t] = "handle_play_pause"
    /\ vs_is_playing' = is_playing
    /\ vs_lock' = NoThread
    /\ vs_pc' = [vs_pc EXCEPT ![t] = "idle"]
    /\ vs_call' = VsCall("handle_play_pause", "none", "done", NoFrame, FALSE, FALSE)
    /\ UNCHANGED <<files, vtime, vs_video, vs_quality, vs_width, vs_height,
                   vs_playback_speed, vs_current_frame_index,
                   vs_total_frames, vs_last_frame_time, vs_handles, vs_loc>>
    /\ UNCHANGED <<vs_wrapped, unit, engineVars, cameraVars, streamVars, controlVars, monitorVars>>

vs_handle_set_speed(t, speed) ==
    /\ unit \in VideoUnits
    /\ vs_pc[t] = "handle_set_speed"
    /\ vs_playback_speed' = speed
    /\ vs_lock' = NoThread
    /\ vs_pc' = [vs_pc EXCEPT ![t] = "idle"]
    /\ vs_call' = VsCall("handle_set_speed", "none", "done", NoFrame, FALSE, FALSE)
    /\ UNCHANGED <<files, vtime, vs_video, vs_quality, vs_width, vs_height,
                   vs_is_playing, vs_current_frame_index,
                   vs_total_frames, vs_last_frame_time, vs_handles, vs_loc>>
    /\ UNCHANGED <<vs_wrapped, unit, engineVars, cameraVars, streamVars, controlVars, monitorVars>>

IntOf_rounding(num, den) ==
    IF num >= 0 THEN (2 * num + den) \div (2 * den)
                ELSE 0 - ((2 * (0 - num) + den) \div (2 * den))

\* int(x) of a fraction num / den: truncation toward zero
IntOf(num, den) ==
    IF num >= 0 THEN num \div den ELSE 0 - ((0 - num) \div den)

\* lines 86-87: position is position_num / SeekDen
SeekFrameIndex(position_num, total_frames) ==
    LET frame_index == IntOf(position_num * total_frames, SeekDen)
    IN  Min(Max(0, frame_index), total_frames - 1)

SetPos_ignored(video, k) == video

\* cv2: video.set(cv2.CAP_PROP_POS_FRAMES, k) on a file of n frames
SetPos(video, k) ==
    [video EXCEPT !.pos = Min(Max(k, 0), files[video.file])]

vs_handle_seek(t, position_num) ==
    /\ unit \in VideoUnits
    /\ vs_pc[t] = "handle_seek"
    /\ IF vs_video.opened
       THEN /\ vs_current_frame_index' = SeekFrameIndex(position_num, vs_total_frames)
            /\ vs_video' = SetPos(vs_video, vs_current_frame_index')
            /\ vs_wrapped' = FALSE
       ELSE UNCHANGED <<vs_current_frame_index, vs_video, vs_wrapped>>
    /\ vs_lock' = NoThread
    /\ vs_pc' = [vs_pc EXCEPT ![t] = "idle"]
    /\ vs_call' = [VsCall("handle_seek", "none", "done", NoFrame, FALSE, FALSE)
                       EXCEPT !.position = position_num]
    /\ UNCHANGED <<files, vtime, vs_quality, vs_width, vs_height,
                   vs_is_playing, vs_playback_speed,
                   vs_total_frames, vs_last_frame_time, vs_handles, vs_loc>>
    /\ UNCHANGED <<unit, engineVars, cameraVars, streamVars, controlVars, monitorVars>>

\* the frame-skipping loop of read_frame, lines 132-137: <<position, index>>
\* after k iterations on a file of n frames
RECURSIVE SkipFrames(_, _, _, _, _)
SkipFrames(k, pos, index, n, total_frames) ==
    IF k = 0 THEN <<pos, index>>
    ELSE LET p1 == IF pos < n THEN pos + 1 ELSE pos
         IN  IF p1 >= total_frames - 1
             THEN SkipFrames(k - 1, 0, 0, n, total_frames)
             ELSE SkipFrames(k - 1, p1, p1, n, total_frames)

\* for the record: the position at which the call before this one, a
\* handle_set_quality, reopened the file; -1 after any other call
VsSwitchedAt ==
    IF vs_call.op = "handle_set_quality" /\ vs_call.result = "done"
    THEN vs_call.position ELSE 0 - 1

VsCanRead_ignoresHandle == vs_is_playing

\* read_frame, line 120: there is an open capture and the stream is playing
VsCanRead == vs_video.opened /\ vs_is_playing

VsNotDue_never(elapsed) == FALSE

\* read_frame, lines 123-127: elapsed < self.frame_interval / self.playback_speed
VsNotDue(elapsed) ==
    IF vs_playback_speed > 0
    THEN elapsed * vs_playback_speed < FRAME_INTERVAL * SpeedDen
    ELSE elapsed * vs_playback_speed > FRAME_INTERVAL * SpeedDen

VsEndWith_held(t) == t

\* read_frame, lines 119-149: every return leaves the with block, which
\* releases self.lock
VsEndWith(t) == NoThread

\* read_frame, lines 120-149, inside the lock
vs_read_frame(t) ==
    /\ unit \in VideoUnits
    /\ vs_pc[t] = "read_frame"
    /\ LET n        == files[vs_video.file]
           elapsed  == vtime - vs_last_frame_time
           skipping == vs_playback_speed > SpeedDen
           skipped  == IF skipping
                       THEN SkipFrames(vs_playback_speed - SpeedDen, vs_video.pos,
                                       vs_current_frame_index, n, vs_total_frames)
                       ELSE <<vs_video.pos, vs_current_frame_index>>
       IN  IF ~VsCanRead
           THEN /\ vs_call' = VsCall("read_frame", "none", "absent", NoFrame, FALSE, FALSE)
                /\ UNCHANGED <<vs_video, vs_current_frame_index, vs_last_frame_time,
                               vs_wrapped>>
           ELSE IF vs_playback_speed = 0
           THEN \* line 123: ZeroDivisionError leaves the with block
                /\ vs_call' = VsCall("read_frame", "none", "raised", NoFrame, FALSE, FALSE)
                /\ UNCHANGED <<vs_video, vs_current_frame_index, vs_last_frame_time,
                               vs_wrapped>>
           ELSE IF VsNotDue(elapsed)
           THEN /\ vs_call' = VsCall("read_frame", "none", "absent", NoFrame, FALSE, FALSE)
                /\ UNCHANGED <<vs_video, vs_current_frame_index, vs_last_frame_time,
                               vs_wrapped>>
           ELSE IF skipped[1] >= n
           THEN /\ vs_video' = SetPos(vs_video, 0)
                /\ vs_current_frame_index' = 0
                /\ vs_call' = VsCall("read_frame", "none", "absent", NoFrame, TRUE, FALSE)
                /\ vs_wrapped' = TRUE
                /\ UNCHANGED vs_last_frame_time
           ELSE /\ vs_video' = [vs_video EXCEPT !.pos = skipped[1] + 1]
                /\ vs_current_frame_index' = skipped[1] + 1
                /\ vs_last_frame_time' = vtime
                /\ vs_call' = [VsCall("read_frame", "none", "frame",
                                      [index |-> skipped[1], file |-> vs_video.file,
                                       width |-> vs_width, height |-> vs_height,
                                       quality |-> vs_quality],
                                      FALSE, FALSE)
                                  EXCEPT !.wrapped = vs_wrapped,
                                         !.position = VsSwitchedAt]
                /\ vs_wrapped' = FALSE
    /\ vs_lock' = VsEndWith(t)
    /\ vs_pc' = [vs_pc EXCEPT ![t] = "idle"]
    /\ UNCHANGED <<files, vtime, vs_quality, vs_width, vs_height,
                   vs_is_playing, vs_playback_speed,
                   vs_total_frames, vs_handles, vs_loc>>
    /\ UNCHANGED <<unit, engineVars, cameraVars, streamVars, controlVars, monitorVars>>

LockedOps == {"handle_play_pause", "handle_set_speed", "handle_seek", "read_frame"}

\* the steps of thread t inside the with block of a method
VsInsideLock(t) ==
    \/ vs_handle_set_quality_fields(t)
    \/ vs_handle_set_quality_height(t)
    \/ vs_handle_set_quality_open(t)
    \/ \E is_playing \in BOOLEAN : vs_handle_play_pause(t, is_playing)
    \/ \E speed \in VsSpeeds : vs_handle_set_speed(t, speed)
    \/ \E position_num \in VsPositions : vs_handle_seek(t, position_num)
    \/ vs_read_frame(t)

\* the calls of the threads T on one VideoStream
VideoNext ==
    \/ VideoTick
    \/ \E t \in Threads, quality \in QualityArgs : vs_handle_set_quality_invalid(t, quality)
    \/ \E t \in Threads, quality \in QualityArgs : vs_handle_set_quality_enter(t, quality)
    \/ \E t \in Threads : vs_handle_set_quality_fields(t)
    \/ \E t \in Threads : vs_handle_set_quality_height(t)
    \/ \E t \in Threads : vs_handle_set_quality_open(t)
    \/ \E t \in Threads, op \in LockedOps : vs_acquire(t, op)
    \/ \E t \in Threads, is_playing \in BOOLEAN : vs_handle_play_pause(t, is_playing)
    \/ \E t \in Threads, speed \in VsSpeeds : vs_handle_set_speed(t, speed)
    \/ \E t \in Threads, position_num \in VsPositions : vs_handle_seek(t, position_num)
    \/ \E t \in Threads : vs_read_frame(t)

----------------------------------------------------------------------------
(* CameraStream (server/camera_stream.py) *)

\* self.camera before open_camera
NoCamera == [opened |-> FALSE, width |-> 0, height |-> 0]

\* the resolutions a caller passes to handle_set_resolution; <<0, 0>> stands
\* for a missing width or height
ResolutionArgs ==
    {<<0, 0>>, <<426, 240>>, <<640, 360>>, <<1280, 720>>, <<1920, 1080>>}

\* whether cv2.VideoCapture(0) gets the device
DeviceOpens == BOOLEAN

CsNoLocals ==
    [op |-> "none", quality |-> "none", width |-> 0, height |-> 0,
     repeat |-> FALSE, changed |-> FALSE]

CsCall(op, level, result, reopened, repeat, changed) ==
    [op |-> op, level |-> level, result |-> result, frame |-> <<0, 0>>,
     reopened |-> reopened, repeat |-> repeat, changed |-> changed]

\* open_camera, lines 29-34: the quality derived from the resolution
CsQualityOf(width, height) ==
    IF width >= 1280 /\ height >= 720 THEN "high"
    ELSE IF width >= 640 /\ height >= 360 THEN "medium"
    ELSE "low"

\* open_camera, lines 20-27: the new capture object and the open handles
CsOpenCamera(camera, handles, width, height, ok) ==
    LET released == IF camera.opened THEN handles - 1 ELSE handles
    IN  [camera  |-> IF ok THEN [opened |-> TRUE, width |-> width, height |-> height]
                           ELSE NoCamera,
         handles |-> IF ok THEN released + 1 ELSE released]

CameraUnits == {"camera", "camera_threads"}

\* with two callers, the resolutions passed are those of medium and high
CsResolutions ==
    IF unit = "camera" THEN ResolutionArgs ELSE {<<640, 360>>, <<1280, 720>>}

InitCamera ==
    /\ cs_lock = NoThread
    /\ cs_width = 640
    /\ cs_height = 360
    /\ IF unit \in LoopUnits
       THEN \* StreamController.__init__: self.camera_stream = None
            cs_camera = NoCamera /\ cs_handles = 0
       ELSE \E ok \in (IF unit \in CameraUnits THEN DeviceOpens ELSE {TRUE}) :
               LET o == CsOpenCamera(NoCamera, 0, 640, 360, ok)
               IN  cs_camera = o.camera /\ cs_handles = o.handles
    /\ cs_quality = "medium"
    /\ cs_pc = [t \in {1, 2} |-> "idle"]
    /\ cs_loc = [t \in {1, 2} |-> CsNoLocals]
    /\ cs_call = CsCall("init", "medium", "done", FALSE, FALSE, FALSE)

\* handle_set_quality, lines 50-53
cs_handle_set_quality_call(t, quality) ==
    /\ unit \in CameraUnits
    /\ cs_pc[t] = "idle"
    /\ IF quality \notin {"low", "medium", "high"}
       THEN /\ cs_call' = CsCall("handle_set_quality", quality, "invalid",
                                 FALSE, FALSE, FALSE)
            /\ UNCHANGED <<cs_pc, cs_loc>>
       ELSE /\ cs_pc' = [cs_pc EXCEPT ![t] = "csq_check"]
            /\ cs_loc' = [cs_loc EXCEPT ![t] =
                  [op |-> "handle_set_quality", quality |-> quality,
                   width |-> 0, height |-> 0,
                   repeat |-> /\ cs_call.op = "handle_set_quality"
                              /\ cs_call.result \in {"done", "skipped"}
                              /\ cs_call.level = quality,
                   changed |-> FALSE]]
            /\ UNCHANGED cs_call
    /\ UNCHANGED <<cs_lock, cs_camera, cs_width, cs_height, cs_quality, cs_handles>>
    /\ UNCHANGED <<unit, engineVars, videoVars, streamVars, controlVars, monitorVars>>

\* handle_set_quality, lines 55-58: the check made before the lock is taken
cs_handle_set_quality_check(t) ==
    /\ unit \in CameraUnits
    /\ cs_pc[t] = "csq_check"
    /\ IF cs_loc[t].quality = cs_quality
       THEN /\ cs_call' = CsCall("handle_set_quality", cs_loc[t].quality, "skipped",
                                 FALSE, cs_loc[t].repeat, FALSE)
            /\ cs_pc' = [cs_pc EXCEPT ![t] = "idle"]
            /\ cs_loc' = [cs_loc EXCEPT ![t] = CsNoLocals]
       ELSE /\ cs_pc' = [cs_pc EXCEPT ![t] = "csq_lock"]
            /\ UNCHANGED <<cs_call, cs_loc>>
    /\ UNCHANGED <<cs_lock, cs_camera, cs_width, cs_height, cs_quality, cs_handles>>
    /\ UNCHANGED <<unit, engineVars, videoVars, streamVars, controlVars, monitorVars>>

\* handle_set_resolution, lines 37-39
cs_handle_set_resolution_call(t, resolution) ==
    /\ unit \in CameraUnits
    /\ cs_pc[t] = "idle"
    /\ IF resolution[1] = 0 \/ resolution[2] = 0
       THEN /\ cs_call' = CsCall("handle_set_resolution", "none", "invalid",
                                 FALSE, FALSE, FALSE)
            /\ UNCHANGED <<cs_pc, cs_loc>>
       ELSE /\ cs_pc' = [cs_pc EXCEPT ![t] = "csr_check"]
            /\ cs_loc' = [cs_loc EXCEPT ![t] =
                  [op |-> "handle_set_resolution", quality |-> "none",
                   width |-> resolution[1], height |-> resolution[2],
                   repeat |-> FALSE, changed |-> FALSE]]
            /\ UNCHANGED cs_call
    /\ UNCHANGED <<cs_lock, cs_camera, cs_width, cs_height, cs_quality, cs_handles>>
    /\ UNCHANGED <<unit, engineVars, videoVars, streamVars, controlVars, monitorVars>>

\* handle_set_resolution, lines 40-43: the check made before the lock is taken
cs_handle_set_resolution_check(t) ==
    /\ unit \in CameraUnits
    /\ cs_pc[t] = "csr_check"
    /\ IF cs_loc[t].width = cs_width /\ cs_loc[t].height = cs_height
       THEN /\ cs_call' = CsCall("handle_set_resolution", "none", "skipped",
                                 FALSE, FALSE, FALSE)
            /\ cs_pc' = [cs_pc EXCEPT ![t] = "idle"]
            /\ cs_loc' = [cs_loc EXCEPT ![t] = CsNoLocals]
       ELSE /\ cs_pc' = [cs_pc EXCEPT ![t] = "csr_lock"]
            /\ UNCHANGED <<cs_call, cs_loc>>
    /\ UNCHANGED <<cs_lock, cs_camera, cs_width, cs_height, cs_quality, cs_handles>>
    /\ UNCHANGED <<unit, engineVars, videoVars, streamVars, controlVars, monitorVars>>

\* with self.lock of handle_set_quality, handle_set_resolution and read_frame
cs_acquire(t) ==
    /\ unit \in CameraUnits
    /\ cs_pc[t] \in {"csq_lock", "csr_lock", "idle"}
    /\ cs_lock = NoThread
    /\ cs_lock' = t
    /\ cs_pc' = [cs_pc EXCEPT ![t] =
                    CASE cs_pc[t] = "csq_lock" -> "csq_fields"
                      [] cs_pc[t] = "csr_lock" -> "csr_width"
                      [] cs_pc[t] = "idle"     -> "read_frame"]
    /\ UNCHANGED <<cs_camera, cs_width, cs_height, cs_quality, cs_handles, cs_loc,
                   cs_call>>
    /\ UNCHANGED <<unit, engineVars, videoVars, streamVars, controlVars, monitorVars>>

\* handle_set_quality, lines 60-66 and 68-70: self.quality, the resolution
\* comparison and self.width
cs_handle_set_quality_fields(t) ==
    /\ unit \in CameraUnits
    /\ cs_pc[t] = "csq_fields"
    /\ cs_quality' = cs_loc[t].quality
    /\ LET resolution == QUALITY_THRESHOLDS[cs_loc[t].quality].resolution
       IN  IF cs_width # resolution[1] \/ cs_height # resolution[2]
           THEN /\ cs_width' = resolution[1]
                /\ cs_pc' = [cs_pc EXCEPT ![t] = "cs_height"]
                /\ cs_loc' = [cs_loc EXCEPT ![t].width = resolution[1],
                                            ![t].height = resolution[2],
                                            ![t].changed = TRUE]
                /\ UNCHANGED <<cs_lock, cs_call>>
           ELSE /\ cs_call' = CsCall("handle_set_quality", cs_loc[t].quality, "done",
                                     FALSE, cs_loc[t].repeat,
                                     cs_quality' # cs_quality)
                /\ cs_lock' = NoThread
                /\ cs_pc' = [cs_pc EXCEPT ![t] = "idle"]
                /\ cs_loc' = [cs_loc EXCEPT ![t] = CsNoLocals]
                /\ UNCHANGED cs_width
    /\ UNCHANGED <<cs_camera, cs_height, cs_handles>>
    /\ UNCHANGED <<unit, engineVars, videoVars, streamVars, controlVars, monitorVars>>

\* handle_set_resolution, line 46: self.width
cs_handle_set_resolution_width(t) ==
    /\ unit \in CameraUnits
    /\ cs_pc[t] = "csr_width"
    /\ cs_width' = cs_loc[t].width
    /\ cs_pc' = [cs_pc EXCEPT ![t] = "cs_height"]
    /\ cs_loc' = [cs_loc EXCEPT ![t].changed = TRUE]
    /\ UNCHANGED <<cs_lock, cs_camera, cs_height, cs_quality, cs_handles, cs_call>>
    /\ UNCHANGED <<unit, engineVars, videoVars, streamVars, controlVars, monitorVars>>

\* lines 46 and 66: self.height
cs_set_height(t) ==
    /\ unit \in CameraUnits
    /\ cs_pc[t] = "cs_height"
    /\ cs_height' = cs_loc[t].height
    /\ cs_pc' = [cs_pc EXCEPT ![t] = "cs_open"]
    /\ UNCHANGED <<cs_lock, cs_camera, cs_width, cs_quality, cs_handles, cs_loc,
                   cs_call>>
    /\ UNCHANGED <<unit, engineVars, videoVars, streamVars, controlVars, monitorVars>>

\* lines 47 and 67: open_camera and the end of the with block
cs_open_camera(t, ok) ==
    /\ unit \in CameraUnits
    /\ cs_pc[t] = "cs_open"
    /\ LET width  == IF cs_loc[t].op = "handle_set_quality" THEN cs_width
                                                           ELSE cs_loc[t].width
           height == IF cs_loc[t].op = "handle_set_quality" THEN cs_height
                                                           ELSE cs_loc[t].height
           o      == CsOpenCamera(cs_camera, cs_handles, width, height, ok)
       IN  /\ cs_camera' = o.camera
           /\ cs_handles' = o.handles
           /\ cs_quality' = CsQualityOf(width, height)
           /\ cs_call' = CsCall(cs_loc[t].op, cs_loc[t].quality, "done",
                                TRUE, cs_loc[t].repeat, cs_loc[t].changed)
    /\ cs_lock' = NoThread
    /\ cs_pc' = [cs_pc EXCEPT ![t] = "idle"]
    /\ cs_loc' = [cs_loc EXCEPT ![t] = CsNoLocals]
    /\ UNCHANGED <<cs_width, cs_height>>
    /\ UNCHANGED <<unit, engineVars, videoVars, streamVars, controlVars, monitorVars>>

\* read_frame, lines 85-90, inside the lock
cs_read_frame(t) ==
    /\ unit \in CameraUnits
    /\ cs_pc[t] = "read_frame"
    /\ cs_call' =
          IF cs_camera.opened
          THEN [CsCall("read_frame", "none", "frame", FALSE, FALSE, FALSE)
                   EXCEPT !.frame = <<cs_camera.width, cs_camera.height>>]
          ELSE CsCall("read_frame", "none", "absent", FALSE, FALSE, FALSE)
    /\ cs_lock' = NoThread
    /\ cs_pc' = [cs_pc EXCEPT ![t] = "idle"]
    /\ UNCHANGED <<cs_camera, cs_width, cs_height, cs_quality, cs_handles, cs_loc>>
    /\ UNCHANGED <<unit, engineVars, videoVars, streamVars, controlVars, monitorVars>>

\* the steps of thread t inside the with block of a method
CsInsideLock(t) ==
    \/ cs_handle_set_quality_fields(t)
    \/ cs_handle_set_resolution_width(t)
    \/ cs_set_height(t)
    \/ \E ok \in DeviceOpens : cs_open_camera(t, ok)
    \/ cs_read_frame(t)

\* the calls of the threads T on one CameraStream
CameraNext ==
    \/ \E t \in Threads, quality \in QualityArgs : cs_handle_set_quality_call(t, quality)
    \/ \E t \in Threads : cs_handle_set_quality_check(t)
    \/ \E t \in Threads, resolution \in CsResolutions :
          cs_handle_set_resolution_call(t, resolution)
    \/ \E t \in Threads : cs_handle_set_resolution_check(t)
    \/ \E t \in Threads : cs_acquire(t)
    \/ \E t \in Threads : cs_handle_set_quality_fields(t)
    \/ \E t \in Threads : cs_handle_set_resolution_width(t)
    \/ \E t \in Threads : cs_set_height(t)
    \/ \E t \in Threads, ok \in DeviceOpens : cs_open_camera(t, ok)
    \/ \E t \in Threads : cs_read_frame(t)

----------------------------------------------------------------------------
(* StreamEngine (server/stream_engine.py) *)

\* self.video_capture = None
NoCapture == [exists |-> FALSE, opened |-> FALSE, pos |-> 0]

\* whether cv2.VideoCapture(self.video_path) opens the file
FileOpens == BOOLEAN

\* the stream-loop threads that can be alive at once
Loops == 1..MaxLoops

NoLoop == 0

SeNoFrame == [index |-> 0 - 1, width |-> 0, height |-> 0, jpeg |-> 0]

\* _get_jpeg_quality
SeJpegQuality(quality) ==
    CASE quality = "low"    -> 70
      [] quality = "medium" -> 85
      [] quality = "high"   -> 95
      [] OTHER              -> 85

\* _resize_frame: the frame at the resolution and JPEG quality of `quality'
SeResizeFrame(frame, quality) ==
    [index  |-> frame.index,
     width  |-> QUALITY_THRESHOLDS[quality].resolution[1],
     height |-> QUALITY_THRESHOLDS[quality].resolution[2],
     jpeg   |-> SeJpegQuality(quality)]

StreamUnits == {"stream_engine", "stream_engine_threads"}

\* with two callers, the quality passed is high
SeQualities == IF unit = "stream_engine" THEN QualityArgs ELSE {"high"}

InitStreamEngine ==
    /\ se_video_capture = NoCapture
    /\ se_current_quality = "medium"
    /\ se_streaming = FALSE
    /\ se_stream_thread = NoLoop
    /\ se_current_frame = SeNoFrame
    /\ se_handles = 0
    /\ se_leaked = FALSE
    /\ se_wrapped = FALSE
    /\ se_loop = [l \in Loops |-> "free"]
    /\ se_loop_loc = [l \in Loops |-> SeNoFrame]
    /\ se_pc = [t \in {1, 2} |-> "idle"]
    /\ se_loc = [t \in {1, 2} |-> NoCapture]

\* start, lines 57-59, and get_frame_generator, lines 208-209
se_start(t) ==
    /\ unit \in StreamUnits
    /\ se_pc[t] = "idle"
    /\ IF se_streaming
       THEN UNCHANGED se_pc
       ELSE /\ se_pc' = [se_pc EXCEPT ![t] = "start_open"]
    /\ UNCHANGED <<se_video_capture, se_current_quality, se_streaming,
                   se_stream_thread, se_current_frame, se_handles, se_leaked,
                   se_wrapped, se_loop, se_loop_loc, se_loc>>
    /\ UNCHANGED <<unit, engineVars, videoVars, cameraVars, controlVars, monitorVars>>

\* start, line 63, right-hand side: cv2.VideoCapture(self.video_path)
se_start_open(t, ok) ==
    /\ unit \in StreamUnits
    /\ se_pc[t] = "start_open"
    /\ se_loc' = [se_loc EXCEPT ![t] = [exists |-> TRUE, opened |-> ok, pos |-> 0]]
    /\ se_handles' = IF ok THEN se_handles + 1 ELSE se_handles
    /\ se_pc' = [se_pc EXCEPT ![t] = "start_store"]
    /\ UNCHANGED <<se_video_capture, se_current_quality, se_streaming,
                   se_stream_thread, se_current_frame, se_leaked, se_wrapped,
                   se_loop, se_loop_loc>>
    /\ UNCHANGED <<unit, engineVars, videoVars, cameraVars, controlVars, monitorVars>>

\* start, line 63, the assignment to self.video_capture: the capture object
\* it replaces loses its last reference and is closed by its destructor,
\* without release() having been called
se_start_store(t) ==
    /\ unit \in StreamUnits
    /\ se_pc[t] = "start_store"
    /\ se_video_capture' = se_loc[t]
    /\ se_loc' = [se_loc EXCEPT ![t] = NoCapture]
    /\ IF se_video_capture.opened
       THEN /\ se_handles' = se_handles - 1
            /\ se_leaked' = TRUE
       ELSE UNCHANGED <<se_handles, se_leaked>>
    /\ se_pc' = [se_pc EXCEPT ![t] = "start_check"]
    /\ UNCHANGED <<se_current_quality, se_streaming, se_stream_thread,
                   se_current_frame, se_wrapped, se_loop, se_loop_loc>>
    /\ UNCHANGED <<unit, engineVars, videoVars, cameraVars, controlVars, monitorVars>>

\* start, lines 65-69 and 76-81
se_start_check(t) ==
    /\ unit \in StreamUnits
    /\ se_pc[t] = "start_check"
    /\ IF se_video_capture.opened
       THEN /\ se_streaming' = TRUE
            /\ se_pc' = [se_pc EXCEPT ![t] = "start_thread"]
            /\ UNCHANGED se_video_capture
       ELSE /\ se_video_capture' = NoCapture
            /\ se_pc' = [se_pc EXCEPT ![t] = "idle"]
            /\ UNCHANGED se_streaming
    /\ UNCHANGED <<se_current_quality, se_stream_thread, se_current_frame,
                   se_handles, se_leaked, se_wrapped, se_loop, se_loop_loc, se_loc>>
    /\ UNCHANGED <<unit, engineVars, videoVars, cameraVars, controlVars, monitorVars>>

\* start, lines 70-72: a new thread runs _stream_loop
se_start_thread(t) ==
    /\ unit \in StreamUnits
    /\ se_pc[t] = "start_thread"
    /\ \E l \in Loops :
          /\ se_loop[l] = "free"
          /\ \A k \in Loops : se_loop[k] = "free" => l <= k
          /\ se_stream_thread' = l
          /\ se_loop' = [se_loop EXCEPT ![l] = "while"]
    /\ se_pc' = [se_pc EXCEPT ![t] = "idle"]
    /\ UNCHANGED <<se_video_capture, se_current_quality, se_streaming,
                   se_current_frame, se_handles, se_leaked, se_wrapped,
                   se_loop_loc, se_loc>>
    /\ UNCHANGED <<unit, engineVars, videoVars, cameraVars, controlVars, monitorVars>>

\* stop, line 85
se_stop(t) ==
    /\ unit \in StreamUnits
    /\ se_pc[t] = "idle"
    /\ se_streaming' = FALSE
    /\ se_pc' = [se_pc EXCEPT ![t] = "stop_join"]
    /\ UNCHANGED <<se_video_capture, se_current_quality, se_stream_thread,
                   se_current_frame, se_handles, se_leaked, se_wrapped, se_loop,
                   se_loop_loc, se_loc>>
    /\ UNCHANGED <<unit, engineVars, videoVars, cameraVars, controlVars, monitorVars>>

\* stop, lines 87-88: join returns when the thread has ended; a loop iteration
\* is far shorter than the 2 second timeout, which expires only when the loop
\* keeps running because self.streaming has been set again
se_stop_join(t) ==
    /\ unit \in StreamUnits
    /\ se_pc[t] = "stop_join"
    /\ IF se_stream_thread = NoLoop
       THEN TRUE
       ELSE se_loop[se_stream_thread] = "free" \/ se_streaming
    /\ se_pc' = [se_pc EXCEPT ![t] = "stop_release"]
    /\ UNCHANGED <<se_video_capture, se_current_quality, se_streaming,
                   se_stream_thread, se_current_frame, se_handles, se_leaked,
                   se_wrapped, se_loop, se_loop_loc, se_loc>>
    /\ UNCHANGED <<unit, engineVars, videoVars, cameraVars, controlVars, monitorVars>>

\* stop, lines 90-92
se_stop_release(t) ==
    /\ unit \in StreamUnits
    /\ se_pc[t] = "stop_release"
    /\ se_handles' = IF se_video_capture.opened THEN se_handles - 1 ELSE se_handles
    /\ se_video_capture' = NoCapture
    /\ se_pc' = [se_pc EXCEPT ![t] = "idle"]
    /\ UNCHANGED <<se_current_quality, se_streaming, se_stream_thread,
                   se_current_frame, se_leaked, se_wrapped, se_loop, se_loop_loc,
                   se_loc>>
    /\ UNCHANGED <<unit, engineVars, videoVars, cameraVars, controlVars, monitorVars>>

\* set_quality, lines 181-187
se_set_quality(t, quality) ==
    /\ unit \in StreamUnits
    /\ se_pc[t] = "idle"
    /\ se_current_quality' = IF quality \in Levels THEN quality ELSE "medium"
    /\ UNCHANGED <<se_video_capture, se_streaming, se_stream_thread,
                   se_current_frame, se_handles, se_leaked, se_wrapped, se_loop,
                   se_loop_loc, se_pc, se_loc>>
    /\ UNCHANGED <<unit, engineVars, videoVars, cameraVars, controlVars, monitorVars>>

\* _stream_loop, line 100: the loop condition
se_loop_while(l) ==
    /\ unit \in StreamUnits
    /\ se_loop[l] = "while"
    /\ se_loop' = [se_loop EXCEPT ![l] =
                      IF se_streaming /\ se_video_capture.exists THEN "read"
                                                                 ELSE "free"]
    /\ UNCHANGED <<se_video_capture, se_current_quality, se_streaming,
                   se_stream_thread, se_current_frame, se_handles, se_leaked,
                   se_wrapped, se_loop_loc, se_pc, se_loc>>
    /\ UNCHANGED <<unit, engineVars, videoVars, cameraVars, controlVars, monitorVars>>

\* _stream_loop, lines 111-114 and 128-130: self.video_capture.read()
se_loop_read(l) ==
    /\ unit \in StreamUnits
    /\ se_loop[l] = "read"
    /\ IF ~se_video_capture.exists
       THEN /\ se_loop' = [se_loop EXCEPT ![l] = "while"]
            /\ UNCHANGED <<se_video_capture, se_loop_loc, se_wrapped>>
       ELSE IF se_video_capture.opened /\ se_video_capture.pos < MaxFrames
       THEN /\ se_video_capture' = [se_video_capture EXCEPT !.pos = @ + 1]
            /\ se_loop_loc' = [se_loop_loc EXCEPT ![l] =
                  [SeNoFrame EXCEPT !.index = se_video_capture.pos]]
            /\ se_wrapped' = FALSE
            /\ se_loop' = [se_loop EXCEPT ![l] = "resize"]
       ELSE /\ se_wrapped' = (se_wrapped \/ se_video_capture.opened)
            /\ se_loop' = [se_loop EXCEPT ![l] = "rewind"]
            /\ UNCHANGED <<se_video_capture, se_loop_loc>>
    /\ UNCHANGED <<se_current_quality, se_streaming, se_stream_thread,
                   se_current_frame, se_handles, se_leaked, se_pc, se_loc>>
    /\ UNCHANGED <<unit, engineVars, videoVars, cameraVars, controlVars, monitorVars>>

\* _stream_loop, lines 116-117: set(cv2.CAP_PROP_POS_FRAMES, 0) and continue
se_loop_rewind(l) ==
    /\ unit \in StreamUnits
    /\ se_loop[l] = "rewind"
    /\ se_video_capture' =
          IF se_video_capture.opened THEN [se_video_capture EXCEPT !.pos = 0]
                                     ELSE se_video_capture
    /\ se_loop' = [se_loop EXCEPT ![l] = "while"]
    /\ UNCHANGED <<se_current_quality, se_streaming, se_stream_thread,
                   se_current_frame, se_handles, se_leaked, se_wrapped,
                   se_loop_loc, se_pc, se_loc>>
    /\ UNCHANGED <<unit, engineVars, videoVars, cameraVars, controlVars, monitorVars>>

\* _stream_loop, line 120: _resize_frame(frame, self.current_quality)
se_loop_resize(l) ==
    /\ unit \in StreamUnits
    /\ se_loop[l] = "resize"
    /\ se_loop_loc' = [se_loop_loc EXCEPT ![l] =
                          SeResizeFrame(se_loop_loc[l], se_current_quality)]
    /\ se_loop' = [se_loop EXCEPT ![l] = "store"]
    /\ UNCHANGED <<se_video_capture, se_current_quality, se_streaming,
                   se_stream_thread, se_current_frame, se_handles, se_leaked,
                   se_wrapped, se_pc, se_loc>>
    /\ UNCHANGED <<unit, engineVars, videoVars, cameraVars, controlVars, monitorVars>>

\* _stream_loop, lines 123-124, inside frame_lock
se_loop_store(l) ==
    /\ unit \in StreamUnits
    /\ se_loop[l] = "store"
    /\ se_current_frame' = se_loop_loc[l]
    /\ se_loop_loc' = [se_loop_loc EXCEPT ![l] = SeNoFrame]
    /\ se_loop' = [se_loop EXCEPT ![l] = "while"]
    /\ UNCHANGED <<se_video_capture, se_current_quality, se_streaming,
                   se_stream_thread, se_handles, se_leaked, se_wrapped, se_pc,
                   se_loc>>
    /\ UNCHANGED <<unit, engineVars, videoVars, cameraVars, controlVars, monitorVars>>

\* the callers of one StreamEngine and its stream-loop threads: caller 1 is the
\* application, caller 2 a viewer whose get_frame_generator calls start
StreamEngineNext ==
    \/ \E t \in Threads : se_start(t)
    \/ \E t \in Threads, ok \in FileOpens : se_start_open(t, ok)
    \/ \E t \in Threads : se_start_store(t)
    \/ \E t \in Threads : se_start_check(t)
    \/ \E t \in Threads : se_start_thread(t)
    \/ \E t \in {1} : se_stop(t)
    \/ \E t \in Threads : se_stop_join(t)
    \/ \E t \in Threads : se_stop_release(t)
    \/ \E t \in {1}, quality \in SeQualities : se_set_quality(t, quality)
    \/ \E l \in Loops : se_loop_while(l)
    \/ \E l \in Loops : se_loop_read(l)
    \/ \E l \in Loops : se_loop_rewind(l)
    \/ \E l \in Loops : se_loop_resize(l)
    \/ \E l \in Loops : se_loop_store(l)

----------------------------------------------------------------------------
(* StreamController (server/stream_controller.py) *)

\* the arguments a client passes: a source, a control mode, and the data of
\* a set_quality event, in which the key 'quality' may be missing
SourceArgs == {"camera", "video", "screen"}

ModeArgs == {"manual", "adaptive", "auto"}

Missing == "missing"

ControlQualityArgs == QualityArgs \cup {Missing}

\* whether cv2.VideoCapture(0) gets the device, in a behaviour of the controller
ScDeviceOpens ==
    IF unit = "stream_controller_readers" THEN DeviceOpens ELSE {TRUE}

\* the fields of the VideoStream and the CameraStream a call through the
\* controller leaves alone
videoRest == <<files, vtime, vs_lock, vs_is_playing, vs_playback_speed,
               vs_last_frame_time, vs_pc, vs_loc, vs_call, vs_wrapped>>

cameraRest == <<cs_lock, cs_pc, cs_loc, cs_call>>

\* VideoStream.handle_set_quality, lines 59-71, as one step of its caller: the
\* method runs under the VideoStream's lock
VsHandleSetQuality(quality) ==
    /\ IF quality \notin {"low", "medium", "high"}
       THEN UNCHANGED <<vs_video, vs_quality, vs_width, vs_height,
                        vs_current_frame_index, vs_total_frames, vs_handles>>
       ELSE LET index == IF vs_video.opened THEN vs_video.pos
                                            ELSE vs_current_frame_index
                o     == VsOpenVideo(vs_video, vs_handles, quality, index,
                                     vs_total_frames)
            IN  /\ vs_current_frame_index' = index
                /\ vs_quality' = quality
                /\ vs_width' = VsResolution(quality)[1]
                /\ vs_height' = VsResolution(quality)[2]
                /\ vs_video' = o.video
                /\ vs_total_frames' = o.total_frames
                /\ vs_handles' = o.handles
    /\ UNCHANGED videoRest

\* CameraStream(), lines 10-17
CsConstruct(ok) ==
    /\ cs_width' = 640
    /\ cs_height' = 360
    /\ LET o == CsOpenCamera(NoCamera, cs_handles, 640, 360, ok)
       IN  cs_camera' = o.camera /\ cs_handles' = o.handles
    /\ cs_quality' = "medium"
    /\ UNCHANGED cameraRest

\* CameraStream.handle_set_quality, lines 49-70, as one step of its caller
CsHandleSetQuality(quality, ok) ==
    /\ IF quality \notin {"low", "medium", "high"} \/ quality = cs_quality
       THEN UNCHANGED <<cs_camera, cs_width, cs_height, cs_quality, cs_handles>>
       ELSE LET resolution == QUALITY_THRESHOLDS[quality].resolution
            IN  IF cs_width # resolution[1] \/ cs_height # resolution[2]
                THEN LET o == CsOpenCamera(cs_camera, cs_handles,
                                           resolution[1], resolution[2], ok)
                     IN  /\ cs_width' = resolution[1]
                         /\ cs_height' = resolution[2]
                         /\ cs_camera' = o.camera
                         /\ cs_handles' = o.handles
                         /\ cs_quality' = CsQualityOf(resolution[1], resolution[2])
                ELSE /\ cs_quality' = quality
                     /\ UNCHANGED <<cs_camera, cs_width, cs_height, cs_handles>>
    /\ UNCHANGED cameraRest

\* CameraStream.handle_set_resolution, lines 36-47, as one step of its caller
CsHandleSetResolution(width, height, ok) ==
    /\ IF width = cs_width /\ height = cs_height
       THEN UNCHANGED <<cs_camera, cs_width, cs_height, cs_quality, cs_handles>>
       ELSE LET o == CsOpenCamera(cs_camera, cs_handles, width, height, ok)
            IN  /\ cs_width' = width
                /\ cs_height' = height
                /\ cs_camera' = o.camera
                /\ cs_handles' = o.handles
                /\ cs_quality' = CsQualityOf(width, height)
    /\ UNCHANGED cameraRest

\* __init__, lines 12-28: the thread started at line 26 is about to evaluate
\* the loop condition for the first time
InitStreamController ==
    /\ sc_current_source = "video"
    /\ sc_camera_stream = "None"
    /\ sc_control_mode = "manual"
    /\ sc_current_quality = "medium"
    /\ sc_loop = [l \in Loops |-> IF l = 1 THEN "while" ELSE "dead"]
    /\ sc_adaptive_quality_thread = 1
    /\ sc_last_applied_quality = [l \in Loops |-> "None"]
    /\ sc_optimal_quality = [l \in Loops |-> "None"]
    /\ sc_pc = "idle"
    /\ sc_reader = "idle"
    /\ sc_calls = 0
    /\ sc_call = [op |-> "init", arg |-> "none", seq |-> 0]
    /\ sc_running = TRUE
    /\ sc_mode_call = [t \in {1, 2} |-> [pc |-> "idle", mode |-> "none"]]

LoopCondition_always == TRUE

\* line 41: self.running and self.control_mode == 'adaptive'
LoopCondition == sc_running /\ sc_control_mode = "adaptive"

\* self.adaptive_quality_thread.is_alive()
LoopAlive == sc_loop[sc_adaptive_quality_thread] # "dead"

\* the slot of the thread that threading.Thread(...) creates
NewLoop ==
    CHOOSE l \in Loops :
        sc_loop[l] = "dead" /\ \A k \in Loops : sc_loop[k] = "dead" => l <= k

\* _adaptive_quality_loop, line 41 (after line 39 or after the sleep of line 73)
sc_loop_while(l) ==
    /\ unit \in LoopUnits
    /\ sc_loop[l] = "while"
    /\ sc_loop' = [sc_loop EXCEPT ![l] = IF LoopCondition THEN "determine" ELSE "exit"]
    /\ UNCHANGED <<sc_current_source, sc_camera_stream, sc_control_mode,
                   sc_current_quality, sc_last_applied_quality,
                   sc_optimal_quality, sc_pc, sc_reader, sc_calls, sc_call>>
    /\ UNCHANGED <<unit, engineVars, videoVars, cameraVars, streamVars, monitorVars, sc_running,
                   sc_adaptive_quality_thread, sc_mode_call>>

\* lines 42-45: the sample of the network monitor and the engine's decision
sc_loop_determine(l, metrics) ==
    /\ unit \in LoopUnits
    /\ sc_loop[l] = "determine"
    /\ DetermineQuality(metrics)
    /\ sc_optimal_quality' = [sc_optimal_quality EXCEPT ![l] = current_quality']
    /\ sc_loop' = [sc_loop EXCEPT ![l] = "apply"]
    /\ UNCHANGED <<sc_current_source, sc_camera_stream, sc_control_mode,
                   sc_current_quality, sc_last_applied_quality,
                   sc_pc, sc_reader, sc_calls, sc_call>>
    /\ UNCHANGED <<unit, videoVars, cameraVars, streamVars, monitorVars, sc_running,
                   sc_adaptive_quality_thread, sc_mode_call>>

\* lines 48-55 and 70-73: the video branch, or the test of the camera branch
sc_loop_apply(l) ==
    /\ unit \in LoopUnits
    /\ sc_loop[l] = "apply"
    /\ IF sc_optimal_quality[l] = sc_last_applied_quality[l]
       THEN /\ sc_loop' = [sc_loop EXCEPT ![l] = "while"]
            /\ sc_optimal_quality' = [sc_optimal_quality EXCEPT ![l] = "None"]
            /\ UNCHANGED <<sc_last_applied_quality, videoVars>>
       ELSE IF sc_current_source = "video"
       THEN /\ IF vs_quality # sc_optimal_quality[l]
               THEN VsHandleSetQuality(sc_optimal_quality[l])
               ELSE UNCHANGED videoVars
            /\ sc_last_applied_quality' = [sc_last_applied_quality EXCEPT ![l] = sc_optimal_quality[l]]
            /\ sc_optimal_quality' = [sc_optimal_quality EXCEPT ![l] = "None"]
            /\ sc_loop' = [sc_loop EXCEPT ![l] = "while"]
       ELSE IF sc_current_source = "camera" /\ sc_camera_stream # "None"
       THEN /\ sc_loop' = [sc_loop EXCEPT ![l] = "apply_camera"]
            /\ UNCHANGED <<sc_last_applied_quality, sc_optimal_quality, videoVars>>
       ELSE /\ sc_last_applied_quality' =
                  [sc_last_applied_quality EXCEPT ![l] = sc_optimal_quality[l]]
            /\ sc_optimal_quality' = [sc_optimal_quality EXCEPT ![l] = "None"]
            /\ sc_loop' = [sc_loop EXCEPT ![l] = "while"]
            /\ UNCHANGED videoVars
    /\ UNCHANGED <<sc_current_source, sc_camera_stream, sc_control_mode,
                   sc_current_quality, sc_pc, sc_reader, sc_calls, sc_call>>
    /\ UNCHANGED <<unit, engineVars, cameraVars, streamVars, monitorVars, sc_running,
                   sc_adaptive_quality_thread, sc_mode_call>>

\* lines 57-73: the camera branch; self.camera_stream is read again, and an
\* AttributeError on None ends the thread
sc_loop_apply_camera(l, ok) ==
    /\ unit \in LoopUnits
    /\ sc_loop[l] = "apply_camera"
    /\ IF sc_camera_stream = "None"
       THEN /\ sc_loop' = [sc_loop EXCEPT ![l] = "dead"]
            /\ UNCHANGED <<sc_last_applied_quality, sc_optimal_quality, cameraVars>>
       ELSE LET optimal_resolution == QUALITY_THRESHOLDS[current_quality].resolution
            IN  /\ CsHandleSetResolution(optimal_resolution[1],
                                         optimal_resolution[2], ok)
                /\ sc_last_applied_quality' = [sc_last_applied_quality EXCEPT ![l] = sc_optimal_quality[l]]
                /\ sc_optimal_quality' = [sc_optimal_quality EXCEPT ![l] = "None"]
                /\ sc_loop' = [sc_loop EXCEPT ![l] = "while"]
    /\ UNCHANGED <<sc_current_source, sc_camera_stream, sc_control_mode,
                   sc_current_quality, sc_pc, sc_reader, sc_calls, sc_call>>
    /\ UNCHANGED <<unit, engineVars, videoVars, streamVars, monitorVars, sc_running,
                   sc_adaptive_quality_thread, sc_mode_call>>

\* the loop function has returned: the thread ends
sc_loop_exit(l) ==
    /\ unit \in LoopUnits
    /\ sc_loop[l] = "exit"
    /\ sc_loop' = [sc_loop EXCEPT ![l] = "dead"]
    /\ sc_last_applied_quality' = [sc_last_applied_quality EXCEPT ![l] = "None"]
    /\ UNCHANGED <<sc_current_source, sc_camera_stream, sc_control_mode,
                   sc_current_quality, sc_optimal_quality, sc_pc, sc_reader,
                   sc_calls, sc_call>>
    /\ UNCHANGED <<unit, engineVars, videoVars, cameraVars, streamVars, monitorVars, sc_running,
                   sc_adaptive_quality_thread, sc_mode_call>>

\* set_source, lines 79-87
sc_set_source(source) ==
    /\ unit \in ControllerUnits \cup SwapUnits
    /\ sc_pc = "idle"
    /\ sc_calls < MaxCalls
    /\ sc_calls' = sc_calls + 1
    /\ IF source \notin {"camera", "video"} \/ sc_current_source = source
       THEN /\ sc_call' = [op |-> "set_source", arg |-> source, seq |-> sc_calls']
            /\ UNCHANGED <<sc_current_source, sc_pc>>
       ELSE /\ sc_current_source' = source
            /\ sc_pc' = IF source = "camera" THEN "src_camera" ELSE "src_video"
            /\ UNCHANGED sc_call
    /\ UNCHANGED <<sc_camera_stream, sc_control_mode, sc_current_quality, sc_loop,
                   sc_last_applied_quality, sc_optimal_quality, sc_reader>>
    /\ UNCHANGED <<unit, engineVars, videoVars, cameraVars, streamVars, monitorVars, sc_running,
                   sc_adaptive_quality_thread, sc_mode_call>>

\* set_source, lines 90-93
sc_set_source_camera(ok) ==
    /\ unit \in ControllerUnits \cup SwapUnits
    /\ sc_pc = "src_camera"
    /\ IF sc_camera_stream = "None"
       THEN CsConstruct(ok) /\ sc_camera_stream' = "CameraStream"
       ELSE UNCHANGED <<cameraVars, sc_camera_stream>>
    /\ sc_pc' = "idle"
    /\ sc_call' = [op |-> "set_source", arg |-> "camera", seq |-> sc_calls]
    /\ UNCHANGED <<sc_current_source, sc_control_mode, sc_current_quality, sc_loop,
                   sc_last_applied_quality, sc_optimal_quality, sc_reader, sc_calls>>
    /\ UNCHANGED <<unit, engineVars, videoVars, streamVars, monitorVars, sc_running,
                   sc_adaptive_quality_thread, sc_mode_call>>

\* set_source, lines 94-99: self.camera_stream.camera.release()
sc_set_source_video ==
    /\ unit \in ControllerUnits \cup SwapUnits
    /\ sc_pc = "src_video"
    /\ IF sc_camera_stream # "None"
       THEN /\ cs_handles' = IF cs_camera.opened THEN cs_handles - 1 ELSE cs_handles
            /\ cs_camera' = [cs_camera EXCEPT !.opened = FALSE]
            /\ sc_pc' = "src_clear"
            /\ UNCHANGED sc_call
       ELSE /\ sc_pc' = "idle"
            /\ sc_call' = [op |-> "set_source", arg |-> "video", seq |-> sc_calls]
            /\ UNCHANGED <<cs_handles, cs_camera>>
    /\ UNCHANGED <<cs_width, cs_height, cs_quality, cameraRest>>
    /\ UNCHANGED <<sc_current_source, sc_camera_stream, sc_control_mode,
                   sc_current_quality, sc_loop, sc_last_applied_quality,
                   sc_optimal_quality, sc_reader, sc_calls>>
    /\ UNCHANGED <<unit, engineVars, videoVars, streamVars, monitorVars, sc_running,
                   sc_adaptive_quality_thread, sc_mode_call>>

\* set_source, line 100: self.camera_stream = None
sc_set_source_clear ==
    /\ unit \in ControllerUnits \cup SwapUnits
    /\ sc_pc = "src_clear"
    /\ sc_camera_stream' = "None"
    /\ sc_pc' = "idle"
    /\ sc_call' = [op |-> "set_source", arg |-> "video", seq |-> sc_calls]
    /\ UNCHANGED <<sc_current_source, sc_control_mode, sc_current_quality, sc_loop,
                   sc_last_applied_quality, sc_optimal_quality, sc_reader, sc_calls>>
    /\ UNCHANGED <<unit, engineVars, videoVars, cameraVars, streamVars, monitorVars, sc_running,
                   sc_adaptive_quality_thread, sc_mode_call>>

\* handle_set_quality, lines 106-124
sc_handle_set_quality(arg, ok) ==
    LET quality == IF arg = Missing THEN "medium" ELSE arg
    IN  /\ unit \in ControllerUnits
        /\ sc_pc = "idle"
        /\ sc_calls < MaxCalls
        /\ sc_current_quality' = quality
        /\ IF sc_current_source = "video"
           THEN VsHandleSetQuality(quality) /\ UNCHANGED cameraVars
           ELSE IF sc_current_source = "camera" /\ sc_camera_stream # "None"
           THEN CsHandleSetQuality(quality, ok) /\ UNCHANGED videoVars
           ELSE UNCHANGED <<videoVars, cameraVars>>
        /\ IF sc_control_mode = "manual"
           THEN SetQuality(quality)
           ELSE UNCHANGED engineVars
        /\ sc_calls' = sc_calls + 1
        /\ sc_call' = [op |-> "handle_set_quality", arg |-> arg, seq |-> sc_calls']
        /\ UNCHANGED <<sc_current_source, sc_camera_stream, sc_control_mode, sc_loop,
                       sc_last_applied_quality, sc_optimal_quality, sc_pc, sc_reader>>
        /\ UNCHANGED <<unit, streamVars, monitorVars, sc_running,
                   sc_adaptive_quality_thread, sc_mode_call>>

SameMode_never(mode) == FALSE

\* set_control_mode, line 142: if self.control_mode == mode
SameMode(mode) == sc_control_mode = mode

\* set_control_mode, lines 138-155
sc_set_control_mode(mode) ==
    /\ unit \in ControllerUnits
    /\ sc_pc = "idle"
    /\ sc_calls < MaxCalls
    /\ IF mode \notin {"manual", "adaptive"} \/ SameMode(mode)
       THEN UNCHANGED <<sc_control_mode, sc_loop, sc_adaptive_quality_thread>>
       ELSE /\ sc_control_mode' = mode
            /\ IF mode = "adaptive" /\ ~LoopAlive
               THEN /\ sc_loop' = [sc_loop EXCEPT ![NewLoop] = "while"]
                    /\ sc_adaptive_quality_thread' = NewLoop
               ELSE UNCHANGED <<sc_loop, sc_adaptive_quality_thread>>
    /\ UNCHANGED <<sc_last_applied_quality, sc_optimal_quality>>
    /\ sc_calls' = sc_calls + 1
    /\ sc_call' = [op |-> "set_control_mode", arg |-> mode, seq |-> sc_calls']
    /\ UNCHANGED <<sc_current_source, sc_camera_stream, sc_current_quality, sc_pc,
                   sc_reader>>
    /\ UNCHANGED <<unit, engineVars, videoVars, cameraVars, streamVars, monitorVars, sc_running,
                   sc_mode_call>>

\* set_control_mode, lines 139-143, in a handler that runs beside another one
sc_mode_enter(t, mode) ==
    /\ unit \in ConcurrentControllerUnits
    /\ sc_mode_call[t].pc = "idle"
    /\ sc_calls < MaxCalls
    /\ sc_calls' = sc_calls + 1
    /\ IF mode \notin {"manual", "adaptive"} \/ SameMode(mode)
       THEN /\ sc_call' = [op |-> "set_control_mode", arg |-> mode, seq |-> sc_calls']
            /\ UNCHANGED sc_mode_call
       ELSE /\ sc_mode_call' = [sc_mode_call EXCEPT ![t] = [pc |-> "set", mode |-> mode]]
            /\ UNCHANGED sc_call
    /\ UNCHANGED <<sc_current_source, sc_camera_stream, sc_control_mode,
                   sc_current_quality, sc_loop, sc_last_applied_quality,
                   sc_optimal_quality, sc_pc, sc_reader, sc_running,
                   sc_adaptive_quality_thread>>
    /\ UNCHANGED <<unit, engineVars, videoVars, cameraVars, streamVars, monitorVars>>

\* set_control_mode, lines 145-148
sc_mode_set(t) ==
    /\ unit \in ConcurrentControllerUnits
    /\ sc_mode_call[t].pc = "set"
    /\ sc_control_mode' = sc_mode_call[t].mode
    /\ IF sc_mode_call[t].mode = "adaptive"
       THEN /\ sc_mode_call' = [sc_mode_call EXCEPT ![t].pc = "is_alive"]
            /\ UNCHANGED sc_call
       ELSE /\ sc_mode_call' = [sc_mode_call EXCEPT ![t] = [pc |-> "idle", mode |-> "none"]]
            /\ sc_call' = [op |-> "set_control_mode", arg |-> sc_mode_call[t].mode,
                           seq |-> sc_call.seq + 1]
    /\ UNCHANGED <<sc_current_source, sc_camera_stream, sc_current_quality, sc_loop,
                   sc_last_applied_quality, sc_optimal_quality, sc_pc, sc_reader,
                   sc_calls, sc_running, sc_adaptive_quality_thread>>
    /\ UNCHANGED <<unit, engineVars, videoVars, cameraVars, streamVars, monitorVars>>

\* set_control_mode, line 150: the test of the thread
sc_mode_is_alive(t) ==
    /\ unit \in ConcurrentControllerUnits
    /\ sc_mode_call[t].pc = "is_alive"
    /\ IF ~LoopAlive
       THEN /\ sc_mode_call' = [sc_mode_call EXCEPT ![t].pc = "start"]
            /\ UNCHANGED sc_call
       ELSE /\ sc_mode_call' = [sc_mode_call EXCEPT ![t] = [pc |-> "idle", mode |-> "none"]]
            /\ sc_call' = [op |-> "set_control_mode", arg |-> "adaptive",
                           seq |-> sc_call.seq + 1]
    /\ UNCHANGED <<sc_current_source, sc_camera_stream, sc_control_mode,
                   sc_current_quality, sc_loop, sc_last_applied_quality,
                   sc_optimal_quality, sc_pc, sc_reader, sc_calls, sc_running,
                   sc_adaptive_quality_thread>>
    /\ UNCHANGED <<unit, engineVars, videoVars, cameraVars, streamVars, monitorVars>>

\* set_control_mode, lines 151-153: a new thread is created, bound to
\* self.adaptive_quality_thread and started
sc_mode_start(t) ==
    /\ unit \in ConcurrentControllerUnits
    /\ sc_mode_call[t].pc = "start"
    /\ \E l \in Loops : sc_loop[l] = "dead"
    /\ sc_loop' = [sc_loop EXCEPT ![NewLoop] = "while"]
    /\ sc_adaptive_quality_thread' = NewLoop
    /\ sc_mode_call' = [sc_mode_call EXCEPT ![t] = [pc |-> "idle", mode |-> "none"]]
    /\ sc_call' = [op |-> "set_control_mode", arg |-> "adaptive",
                   seq |-> sc_call.seq + 1]
    /\ UNCHANGED <<sc_current_source, sc_camera_stream, sc_control_mode,
                   sc_current_quality, sc_last_applied_quality, sc_optimal_quality,
                   sc_pc, sc_reader, sc_calls, sc_running>>
    /\ UNCHANGED <<unit, engineVars, videoVars, cameraVars, streamVars, monitorVars>>

\* generate_frames, lines 173-177, and get_stream_info, lines 159-161: the
\* loop condition and the test of self.current_source
sc_read_source ==
    /\ unit = "stream_controller_readers"
    /\ sc_reader \in {"idle", "info"}
    /\ sc_reader' =
          CASE sc_reader = "idle" /\ ~sc_running -> "ended"
            [] sc_reader = "idle" /\ sc_current_source = "camera" -> "gf_camera"
            [] sc_reader = "idle" /\ sc_current_source # "camera" -> "gf_video"
            [] sc_reader = "info" /\ sc_current_source = "video"  -> "info_video"
            [] sc_reader = "info" /\ sc_current_source # "video"  -> "info_camera"
    /\ UNCHANGED <<sc_current_source, sc_camera_stream, sc_control_mode,
                   sc_current_quality, sc_loop, sc_last_applied_quality,
                   sc_optimal_quality, sc_pc, sc_calls, sc_call>>
    /\ UNCHANGED <<unit, engineVars, videoVars, cameraVars, streamVars, monitorVars, sc_running,
                   sc_adaptive_quality_thread, sc_mode_call>>

\* generate_frames, lines 176-182: self.camera_stream.read_frame() or
\* self.video_stream.read_frame(); an AttributeError on None ends the task
sc_read_frame ==
    /\ unit = "stream_controller_readers"
    /\ sc_reader \in {"gf_camera", "gf_video"}
    /\ sc_reader' =
          IF sc_reader = "gf_camera"
          THEN IF sc_camera_stream = "None" THEN "crashed"
               ELSE IF cs_camera.opened THEN "info" ELSE "idle"
          ELSE IF vs_video.opened THEN "info" ELSE "idle"
    /\ UNCHANGED <<sc_current_source, sc_camera_stream, sc_control_mode,
                   sc_current_quality, sc_loop, sc_last_applied_quality,
                   sc_optimal_quality, sc_pc, sc_calls, sc_call>>
    /\ UNCHANGED <<unit, engineVars, videoVars, cameraVars, streamVars, monitorVars, sc_running,
                   sc_adaptive_quality_thread, sc_mode_call>>

\* get_stream_info, lines 160-170: self.video_stream.get_video_info() or
\* self.camera_stream.get_camera_info()
sc_get_stream_info ==
    /\ unit = "stream_controller_readers"
    /\ sc_reader \in {"info_camera", "info_video"}
    /\ sc_reader' =
          IF sc_reader = "info_camera" /\ sc_camera_stream = "None"
          THEN "crashed" ELSE "idle"
    /\ UNCHANGED <<sc_current_source, sc_camera_stream, sc_control_mode,
                   sc_current_quality, sc_loop, sc_last_applied_quality,
                   sc_optimal_quality, sc_pc, sc_calls, sc_call>>
    /\ UNCHANGED <<unit, engineVars, videoVars, cameraVars, streamVars, monitorVars, sc_running,
                   sc_adaptive_quality_thread, sc_mode_call>>

\* NetworkMonitor.stop, lines 72-74: the flag is cleared, and join returns
\* after at most 2 seconds
NmStop ==
    /\ nm_running' = FALSE
    /\ UNCHANGED <<nm_bandwidth_history, nm_latency_history, nm_packet_loss_history,
                   nm_latest_metrics, nm_pc, nm_loc, nm_recorded, nm_returned,
                   in_call>>

\* __del__, lines 188-190: self.running is cleared and the network monitor
\* stopped. The destructor runs when nothing refers to the object any more:
\* the adaptive threads and the frame task, whose targets are bound methods of
\* it, have ended, and no caller holds it afterwards
sc_del ==
    /\ unit \in ControllerUnits
    /\ sc_pc = "idle"
    /\ \A l \in Loops : sc_loop[l] = "dead"
    /\ unit = "stream_controller_readers" => sc_reader = "crashed"
    /\ sc_running' = FALSE
    /\ NmStop
    /\ sc_pc' = "deleted"
    /\ sc_call' = [op |-> "__del__", arg |-> "none", seq |-> sc_call.seq + 1]
    /\ UNCHANGED <<sc_current_source, sc_camera_stream, sc_control_mode,
                   sc_current_quality, sc_loop, sc_last_applied_quality,
                   sc_optimal_quality, sc_reader, sc_calls,
                   sc_adaptive_quality_thread, sc_mode_call>>
    /\ UNCHANGED <<unit, engineVars, videoVars, cameraVars, streamVars>>

\* the steps of the adaptive loop thread
AdaptiveLoopNext ==
    \/ \E l \in Loops : sc_loop_while(l)
    \/ \E l \in Loops, metrics \in {Scenario1, Scenario2} :
          sc_loop_determine(l, metrics)
    \/ \E l \in Loops : sc_loop_apply(l)
    \/ \E l \in Loops, ok \in ScDeviceOpens : sc_loop_apply_camera(l, ok)
    \/ \E l \in Loops : sc_loop_exit(l)

\* the calls of the socket handler
HandlerNext ==
    \/ \E source \in SourceArgs : sc_set_source(source)
    \/ \E ok \in ScDeviceOpens : sc_set_source_camera(ok)
    \/ sc_set_source_video
    \/ sc_set_source_clear
    \/ \E arg \in ControlQualityArgs, ok \in ScDeviceOpens :
          sc_handle_set_quality(arg, ok)
    \/ \E mode \in ModeArgs : sc_set_control_mode(mode)
    \/ sc_del

\* generate_frames, lines 173-177: the test of self.current_source
sc_swap_read_source ==
    /\ unit \in SwapUnits
    /\ sc_reader = "idle"
    /\ sc_reader' = IF sc_current_source = "camera" THEN "gf_camera" ELSE "gf_video"
    /\ UNCHANGED <<sc_current_source, sc_camera_stream, sc_control_mode,
                   sc_current_quality, sc_loop, sc_last_applied_quality,
                   sc_optimal_quality, sc_pc, sc_calls, sc_call>>
    /\ UNCHANGED <<unit, engineVars, videoVars, cameraVars, streamVars, monitorVars, sc_running,
                   sc_adaptive_quality_thread, sc_mode_call>>

\* generate_frames, lines 176-178: self.camera_stream or self.video_stream is
\* loaded and read_frame entered, up to the lock (camera_stream.py line 84,
\* video_stream.py line 119); an AttributeError on None ends the task
sc_swap_read_enter ==
    /\ unit \in SwapUnits
    /\ sc_reader \in {"gf_camera", "gf_video"}
    /\ IF sc_reader = "gf_video"
       THEN /\ vs_lock' = 1
            /\ sc_reader' = "rf_video"
            /\ UNCHANGED cs_lock
       ELSE IF sc_camera_stream = "None"
       THEN /\ sc_reader' = "crashed"
            /\ UNCHANGED <<vs_lock, cs_lock>>
       ELSE /\ cs_lock' = 1
            /\ sc_reader' = "rf_camera"
            /\ UNCHANGED vs_lock
    /\ UNCHANGED <<files, vtime, vs_video, vs_quality, vs_width, vs_height,
                   vs_is_playing, vs_playback_speed, vs_current_frame_index,
                   vs_total_frames, vs_last_frame_time, vs_handles, vs_pc, vs_loc,
                   vs_call, vs_wrapped>>
    /\ UNCHANGED <<cs_camera, cs_width, cs_height, cs_quality, cs_handles,
                   cs_pc, cs_loc, cs_call>>
    /\ UNCHANGED <<sc_current_source, sc_camera_stream, sc_control_mode,
                   sc_current_quality, sc_loop, sc_last_applied_quality,
                   sc_optimal_quality, sc_pc, sc_calls, sc_call>>
    /\ UNCHANGED <<unit, engineVars, streamVars, monitorVars, sc_running,
                   sc_adaptive_quality_thread, sc_mode_call>>

\* read_frame returns and leaves the with block; generate_frames, lines
\* 180-184. The frame itself is the one of the VideoStream and CameraStream
\* units
sc_swap_read_return ==
    /\ unit \in SwapUnits
    /\ sc_reader \in {"rf_camera", "rf_video"}
    /\ IF sc_reader = "rf_video"
       THEN vs_lock' = NoThread /\ UNCHANGED cs_lock
       ELSE cs_lock' = NoThread /\ UNCHANGED vs_lock
    /\ sc_reader' = "idle"
    /\ UNCHANGED <<files, vtime, vs_video, vs_quality, vs_width, vs_height,
                   vs_is_playing, vs_playback_speed, vs_current_frame_index,
                   vs_total_frames, vs_last_frame_time, vs_handles, vs_pc, vs_loc,
                   vs_call, vs_wrapped>>
    /\ UNCHANGED <<cs_camera, cs_width, cs_height, cs_quality, cs_handles,
                   cs_pc, cs_loc, cs_call>>
    /\ UNCHANGED <<sc_current_source, sc_camera_stream, sc_control_mode,
                   sc_current_quality, sc_loop, sc_last_applied_quality,
                   sc_optimal_quality, sc_pc, sc_calls, sc_call>>
    /\ UNCHANGED <<unit, engineVars, streamVars, monitorVars, sc_running,
                   sc_adaptive_quality_thread, sc_mode_call>>

\* set_source in a socket handler beside the frame task
SourceSwapNext ==
    \/ \E source \in SourceArgs : sc_set_source(source)
    \/ \E ok \in ScDeviceOpens : sc_set_source_camera(ok)
    \/ sc_set_source_video
    \/ sc_set_source_clear
    \/ sc_swap_read_source
    \/ sc_swap_read_enter
    \/ sc_swap_read_return

\* the frame task
ReaderNext ==
    \/ sc_read_source
    \/ sc_read_frame
    \/ sc_get_stream_info

\* two socket handlers in set_control_mode at the same time
ConcurrentModeNext ==
    \/ \E t \in {1, 2}, mode \in ModeArgs : sc_mode_enter(t, mode)
    \/ \E t \in {1, 2} : sc_mode_set(t)
    \/ \E t \in {1, 2} : sc_mode_is_alive(t)
    \/ \E t \in {1, 2} : sc_mode_start(t)

ControllerNext ==
    \/ Tick
    \/ AdaptiveLoopNext
    \/ HandlerNext
    \/ ReaderNext

----------------------------------------------------------------------------
(* NetworkMonitor (server/wifi_monitor.py) and the metric ingress          *)
(* (server/socket_handlers.py, server/app.py)                              *)

\* behaviours of one NetworkMonitor: one producer, two producers, or the
\* handlers that receive metrics from a client
MonitorUnits == {"network_monitor", "network_monitor_threads", "ingress"}

\* self._history_size
nm_history_size == 10

\* the request data of a client: any of the three keys may be missing
TelemetryData ==
    [bandwidth : {Absent, 6}, latency : {Absent, 50}, packet_loss : {Absent, 1}]
        \cup {Scenario2}

\* the data a behaviour passes to handle_network_metrics
NmData == IF unit = "ingress" THEN TelemetryData ELSE {Scenario1, Scenario2}

\* the measurements of _monitor_loop
NmMeasurements == {Scenario1, Scenario2}

\* _update_metrics calls in a behaviour
NmRecordCap ==
    CASE unit = "network_monitor"         -> nm_history_size + MaxRecords
      [] unit = "network_monitor_threads" -> MaxRecords + 1
      [] OTHER                            -> MaxRecords

RECURSIVE NmSum(_)
NmSum(h) == IF h = <<>> THEN 0 ELSE Head(h) + NmSum(Tail(h))

\* round(statistics.mean(h), 2), in hundredths: to the nearest hundredth,
\* halves to the even one
NmRoundedMean(h) ==
    LET num   == 100 * NmSum(h)
        den   == Len(h)
        floor == num \div den
        rest  == num - floor * den
    IN  IF 2 * rest < den THEN floor
        ELSE IF 2 * rest > den THEN floor + 1
        ELSE IF floor % 2 = 0 THEN floor ELSE floor + 1

NmLast_keepsOldest(h, n) == SubSeq(h, 1, n)

\* h[-n:]
NmLast(h, n) == SubSeq(h, Len(h) - n + 1, Len(h))

NmNoLocals ==
    [sample |-> NoMetrics, tmp |-> <<>>, smoothed |-> NoMetrics]

InitMonitor ==
    /\ nm_bandwidth_history = <<>>
    /\ nm_latency_history = <<>>
    /\ nm_packet_loss_history = <<>>
    /\ nm_latest_metrics = [bandwidth |-> 0, latency |-> 0, packet_loss |-> 0]
    /\ nm_pc = [t \in {1, 2} |-> "idle"]
    /\ nm_loc = [t \in {1, 2} |-> NmNoLocals]
    /\ nm_recorded = <<>>
    /\ nm_returned = 0
    /\ in_call = [op |-> "init", data |-> NoMetrics, metrics |-> NoMetrics]
    /\ nm_running = FALSE

\* get_metrics: a copy of self._latest_metrics
get_metrics == nm_latest_metrics

\* _update_metrics, line 161, at the start of a call with the sample given
NmUpdateMetrics(t, sample) ==
    /\ nm_pc[t] = "idle"
    /\ Len(nm_recorded) < NmRecordCap
    /\ nm_bandwidth_history' = Append(nm_bandwidth_history, sample.bandwidth)
    /\ nm_pc' = [nm_pc EXCEPT ![t] = "latency"]
    /\ nm_loc' = [nm_loc EXCEPT ![t].sample = sample]
    /\ nm_recorded' = Append(nm_recorded, sample)
    /\ UNCHANGED <<nm_latency_history, nm_packet_loss_history, nm_latest_metrics,
                   nm_returned>>

\* start, lines 59-66
nm_start ==
    /\ unit \in MonitorUnits
    /\ ~nm_running
    /\ nm_running' = TRUE
    /\ UNCHANGED <<nm_bandwidth_history, nm_latency_history, nm_packet_loss_history,
                   nm_latest_metrics, nm_pc, nm_loc, nm_recorded, nm_returned,
                   in_call>>
    /\ UNCHANGED <<unit, engineVars, videoVars, cameraVars, streamVars, controlVars>>

\* a call of stop on a monitor of its own
nm_stop ==
    /\ unit \in MonitorUnits
    /\ nm_running
    /\ NmStop
    /\ UNCHANGED <<unit, engineVars, videoVars, cameraVars, streamVars, controlVars>>

\* _monitor_loop, lines 80-87
nm_monitor_loop(t, sample) ==
    /\ unit \in MonitorUnits
    /\ nm_running
    /\ NmUpdateMetrics(t, sample)
    /\ in_call' = [op |-> "_monitor_loop", data |-> sample, metrics |-> sample]
    /\ UNCHANGED <<unit, engineVars, videoVars, cameraVars, streamVars, controlVars, nm_running>>

\* handle_network_metrics, lines 22-24: the sample made of the request data
IngressSample(data) ==
    [bandwidth   |-> Get(data, "bandwidth", 0),
     latency     |-> Get(data, "latency", 999),
     packet_loss |-> Get(data, "packet_loss", 100)]

\* handle_network_metrics, lines 21-31
handle_network_metrics(t, data) ==
    /\ unit \in MonitorUnits
    /\ NmUpdateMetrics(t, IngressSample(data))
    /\ in_call' = [op |-> "handle_network_metrics", data |-> data,
                   metrics |-> IngressSample(data)]
    /\ UNCHANGED <<unit, engineVars, videoVars, cameraVars, streamVars, controlVars, nm_running>>

\* update_manual_metrics, lines 91-95: the metrics made of the request data
ManualMetrics(data) ==
    [bandwidth   |-> Get(data, "bandwidth", 0),
     latency     |-> Get(data, "latency", 0),
     packet_loss |-> Get(data, "packet_loss", 0)]

\* update_manual_metrics, lines 87-111: the decision on the metrics and
\* stream_engine.set_quality(quality)
update_manual_metrics(data) ==
    /\ unit = "ingress"
    /\ DetermineQuality(ManualMetrics(data))
    /\ se_current_quality' = current_quality'
    /\ in_call' = [op |-> "update_manual_metrics", data |-> data,
                   metrics |-> ManualMetrics(data)]
    /\ UNCHANGED <<se_video_capture, se_streaming, se_stream_thread,
                   se_current_frame, se_handles, se_leaked, se_wrapped, se_loop,
                   se_loop_loc, se_pc, se_loc>>
    /\ UNCHANGED <<nm_bandwidth_history, nm_latency_history, nm_packet_loss_history,
                   nm_latest_metrics, nm_pc, nm_loc, nm_recorded, nm_returned>>
    /\ UNCHANGED <<unit, videoVars, cameraVars, controlVars, nm_running>>

\* _update_metrics, line 162
nm_append_latency(t) ==
    /\ unit \in MonitorUnits
    /\ nm_pc[t] = "latency"
    /\ nm_latency_history' = Append(nm_latency_history, nm_loc[t].sample.latency)
    /\ nm_pc' = [nm_pc EXCEPT ![t] = "packet_loss"]
    /\ UNCHANGED <<nm_bandwidth_history, nm_packet_loss_history, nm_latest_metrics,
                   nm_loc, nm_recorded, nm_returned, in_call>>
    /\ UNCHANGED <<unit, engineVars, videoVars, cameraVars, streamVars, controlVars, nm_running>>

\* _update_metrics, line 163
nm_append_packet_loss(t) ==
    /\ unit \in MonitorUnits
    /\ nm_pc[t] = "packet_loss"
    /\ nm_packet_loss_history' =
          Append(nm_packet_loss_history, nm_loc[t].sample.packet_loss)
    /\ nm_pc' = [nm_pc EXCEPT ![t] = "trim_bandwidth"]
    /\ UNCHANGED <<nm_bandwidth_history, nm_latency_history, nm_latest_metrics,
                   nm_loc, nm_recorded, nm_returned, in_call>>
    /\ UNCHANGED <<unit, engineVars, videoVars, cameraVars, streamVars, controlVars, nm_running>>

\* the list a trim step works on, the step that stores its slice, and the
\* step after it
NmTrimList(pc) ==
    CASE pc \in {"trim_bandwidth", "store_bandwidth"}     -> nm_bandwidth_history
      [] pc \in {"trim_latency", "store_latency"}         -> nm_latency_history
      [] pc \in {"trim_packet_loss", "store_packet_loss"} -> nm_packet_loss_history

NmStoreStep(pc) ==
    CASE pc = "trim_bandwidth"   -> "store_bandwidth"
      [] pc = "trim_latency"     -> "store_latency"
      [] pc = "trim_packet_loss" -> "store_packet_loss"

NmAfterTrim(pc) ==
    CASE pc \in {"trim_bandwidth", "store_bandwidth"}     -> "trim_latency"
      [] pc \in {"trim_latency", "store_latency"}         -> "trim_packet_loss"
      [] pc \in {"trim_packet_loss", "store_packet_loss"} -> "mean"

\* _update_metrics, lines 166-171: the length test of one list and the slice
\* of its last _history_size entries
nm_trim(t) ==
    /\ unit \in MonitorUnits
    /\ nm_pc[t] \in {"trim_bandwidth", "trim_latency", "trim_packet_loss"}
    /\ IF Len(NmTrimList(nm_pc[t])) > nm_history_size
       THEN /\ nm_loc' = [nm_loc EXCEPT ![t].tmp =
                             NmLast(NmTrimList(nm_pc[t]), nm_history_size)]
            /\ nm_pc' = [nm_pc EXCEPT ![t] = NmStoreStep(nm_pc[t])]
       ELSE /\ nm_pc' = [nm_pc EXCEPT ![t] = NmAfterTrim(nm_pc[t])]
            /\ UNCHANGED nm_loc
    /\ UNCHANGED <<nm_bandwidth_history, nm_latency_history, nm_packet_loss_history,
                   nm_latest_metrics, nm_recorded, nm_returned, in_call>>
    /\ UNCHANGED <<unit, engineVars, videoVars, cameraVars, streamVars, controlVars, nm_running>>

\* _update_metrics, lines 167, 169, 171: the slice is bound to the attribute
nm_trim_store(t) ==
    /\ unit \in MonitorUnits
    /\ nm_pc[t] \in {"store_bandwidth", "store_latency", "store_packet_loss"}
    /\ nm_bandwidth_history' =
          IF nm_pc[t] = "store_bandwidth" THEN nm_loc[t].tmp
                                          ELSE nm_bandwidth_history
    /\ nm_latency_history' =
          IF nm_pc[t] = "store_latency" THEN nm_loc[t].tmp ELSE nm_latency_history
    /\ nm_packet_loss_history' =
          IF nm_pc[t] = "store_packet_loss" THEN nm_loc[t].tmp
                                            ELSE nm_packet_loss_history
    /\ nm_loc' = [nm_loc EXCEPT ![t].tmp = <<>>]
    /\ nm_pc' = [nm_pc EXCEPT ![t] = NmAfterTrim(nm_pc[t])]
    /\ UNCHANGED <<nm_latest_metrics, nm_recorded, nm_returned, in_call>>
    /\ UNCHANGED <<unit, engineVars, videoVars, cameraVars, streamVars, controlVars, nm_running>>

\* _update_metrics, lines 174-176 and the rounding of lines 180-182
nm_mean(t) ==
    /\ unit \in MonitorUnits
    /\ nm_pc[t] = "mean"
    /\ nm_loc' = [nm_loc EXCEPT ![t].smoothed =
                     [bandwidth   |-> NmRoundedMean(nm_bandwidth_history),
                      latency     |-> NmRoundedMean(nm_latency_history),
                      packet_loss |-> NmRoundedMean(nm_packet_loss_history)]]
    /\ nm_pc' = [nm_pc EXCEPT ![t] = "publish"]
    /\ UNCHANGED <<nm_bandwidth_history, nm_latency_history, nm_packet_loss_history,
                   nm_latest_metrics, nm_recorded, nm_returned, in_call>>
    /\ UNCHANGED <<unit, engineVars, videoVars, cameraVars, streamVars, controlVars, nm_running>>

\* _update_metrics, lines 179-183: self._latest_metrics is bound, and the
\* call returns
nm_publish(t) ==
    /\ unit \in MonitorUnits
    /\ nm_pc[t] = "publish"
    /\ nm_latest_metrics' = nm_loc[t].smoothed
    /\ nm_loc' = [nm_loc EXCEPT ![t] = NmNoLocals]
    /\ nm_pc' = [nm_pc EXCEPT ![t] = "idle"]
    /\ nm_returned' = nm_returned + 1
    /\ UNCHANGED <<nm_bandwidth_history, nm_latency_history, nm_packet_loss_history,
                   nm_recorded, in_call>>
    /\ UNCHANGED <<unit, engineVars, videoVars, cameraVars, streamVars, controlVars, nm_running>>

\* the producers of one NetworkMonitor
MonitorNext ==
    \/ nm_start
    \/ nm_stop
    \/ \E t \in Threads, sample \in NmMeasurements : nm_monitor_loop(t, sample)
    \/ \E t \in Threads, data \in NmData : handle_network_metrics(t, data)
    \/ \E t \in Threads : nm_append_latency(t)
    \/ \E t \in Threads : nm_append_packet_loss(t)
    \/ \E t \in Threads : nm_trim(t)
    \/ \E t \in Threads : nm_trim_store(t)
    \/ \E t \in Threads : nm_mean(t)
    \/ \E t \in Threads : nm_publish(t)

\* the requests at the metric ingress
IngressNext ==
    \/ \E data \in TelemetryData : handle_network_metrics(1, data)
    \/ \E data \in TelemetryData : update_manual_metrics(data)
    \/ nm_append_latency(1)
    \/ nm_append_packet_loss(1)
    \/ nm_trim(1)
    \/ nm_mean(1)
    \/ nm_publish(1)

----------------------------------------------------------------------------
(* Claims about the decision engine *)

\* the row of the threshold table for `level' as the claims state it, on the
\* values determine_quality reads from the sample
MeetsRow(level, metrics) ==
    /\ QUALITY_THRESHOLDS[level].min_bandwidth <= Get(metrics, "bandwidth", 0)
    /\ QUALITY_THRESHOLDS[level].max_latency >= Get(metrics, "latency", 500)
    /\ QUALITY_THRESHOLDS[level].max_packet_loss >= Get(metrics, "packet_loss", 15)

Rank(level) == CASE level = "low" -> 0 [] level = "medium" -> 1 [] level = "high" -> 2

HighestMet(metrics) ==
    LET ok == {l \in {"medium", "high"} : MeetsRow(l, metrics)}
    IN  IF ok = {} THEN "low"
        ELSE CHOOSE l \in ok : \A k \in ok : Rank(k) <= Rank(l)

\* a step of a determine_quality call: the clock stands still (Tick is the only
\* step that moves it) and the call recorded after the step is a
\* determine_quality call, whose sample is call'.metrics
DetermineStep == now' = now /\ call'.op = "determine_quality"

LastN(s, n) == IF Len(s) > n THEN SubSeq(s, Len(s) - n + 1, Len(s)) ELSE s

\* C1 (hysteresis): a change of current_quality made by determine_quality comes
\* at least stability_period after the previous change of current_quality, so
\* no window [t, t + stability_period) holds two changes made by
\* determine_quality calls, whatever the samples and the call times.
C1_Hysteresis ==
    \A i \in 1..(Len(changes) - 1) :
        changes[i + 1].by = "determine_quality"
            => changes[i + 1].at - changes[i].at >= QUALITY_STABILITY_PERIOD

\* two changes by determine_quality, the second as early as the gate allows
C1_Witness ==
    /\ Len(changes) = 2
    /\ changes[1].by = "determine_quality"
    /\ changes[2].by = "determine_quality"
    /\ changes[2].at - changes[1].at = QUALITY_STABILITY_PERIOD

\* C2 as stated: every value determine_quality returns is 'low' or a level
\* whose min_bandwidth, max_latency and max_packet_loss are met by the sample
\* of that call.
C2_ReturnMeetsThresholds ==
    call.op = "determine_quality"
        => (call.ret = "low" \/ MeetsRow(call.ret, call.metrics))

\* C2 amended: every value determine_quality returns is 'low', or a level whose
\* thresholds are met by the sample of that call, or the unchanged
\* current_quality of a call made less than stability_period after
\* last_change_time (the change to the candidate is suppressed).
C2_ReturnMeetsOrSuppressed ==
    [][DetermineStep
         => \/ call'.ret = "low"
            \/ MeetsRow(call'.ret, call'.metrics)
            \/ /\ call'.ret = current_quality
               /\ now - last_change_time < QUALITY_STABILITY_PERIOD]_vars

\* a call whose sample does not meet the row of the level it returns
C2_Witness ==
    /\ call.op = "determine_quality"
    /\ call.ret = "high"
    /\ ~MeetsRow("high", call.metrics)
    /\ call.optimal_quality = "low"

\* C9 (candidate selection): the candidate of every determine_quality call is
\* the highest of medium and high whose three limits the sample meets, and
\* 'low' when neither qualifies, also when the sample misses the low row.
C9_CandidateIsHighestMet ==
    call.op = "determine_quality"
        => call.optimal_quality = HighestMet(call.metrics)

\* the candidate is 'low' for a sample that does not meet the low row either
C9_Witness ==
    /\ call.op = "determine_quality"
    /\ call.optimal_quality = "low"
    /\ ~MeetsRow("low", call.metrics)

C11_Scenario1ReturnsHigh ==
    (/\ call.op = "determine_quality"
     /\ call.metrics = Scenario1
     /\ Len(quality_history) = (IF call.applied THEN 2 ELSE 1))
        => call.ret = "high"

\* C12: quality_history holds at most 100 entries
C12_HistoryBound == Len(quality_history) <= HISTORY_LIMIT

\* a step that is a call of set_quality on the engine
SetQualityStep == now' = now /\ call'.op = "set_quality"

\* C13: set_quality(level) with a valid level different from current_quality
\* sets current_quality to level, appends level to quality_history and sets
\* last_change_time to the time of the call, however short the time since the
\* last change
C13_ManualOverride ==
    [][ (/\ SetQualityStep
         /\ call'.optimal_quality \in Levels
         /\ call'.optimal_quality # current_quality) =>
            /\ current_quality' = call'.optimal_quality
            /\ quality_history' = Append(quality_history, call'.optimal_quality)
            /\ last_change_time' = now
            /\ call'.applied ]_vars

\* C13 happens: set_quality has changed the quality less than the stability
\* period after the change before it
C13_Witness ==
    /\ call.op = "set_quality"
    /\ call.applied
    /\ Len(changes) = 2
    /\ changes[2].by = "set_quality"
    /\ changes[2].at = now
    /\ changes[2].at - changes[1].at < QUALITY_STABILITY_PERIOD

----------------------------------------------------------------------------
(* Claims about the sources *)

\* C3, VideoStream: the second of two consecutive handle_set_quality(level)
\* calls reopens no capture handle and changes no state
C3_VideoSecondCallNoOp ==
    (unit = "video" /\ vs_call.op = "handle_set_quality" /\ vs_call.repeat)
        => (~vs_call.reopened /\ ~vs_call.changed)

\* C3, CameraStream: the second of two consecutive handle_set_quality(level)
\* calls reopens no capture handle and changes no state
C3_CameraSecondCallNoOp ==
    (unit = "camera" /\ cs_call.op = "handle_set_quality" /\ cs_call.repeat)
        => (~cs_call.reopened /\ ~cs_call.changed)

\* C3: on either source, two consecutive handle_set_quality(level) calls with
\* nothing in between reopen at most once: the second call reopens nothing and
\* changes no state
C3_SecondCallNoOp == C3_VideoSecondCallNoOp /\ C3_CameraSecondCallNoOp

\* the steps of VideoStream methods that read or write the object's state
VsAccessing(t) ==
    /\ unit \in VideoUnits
    /\ vs_pc[t] \in {"vsq_fields", "vsq_height", "vsq_open"} \cup LockedOps

\* the steps of CameraStream methods that read or write the object's state
CsAccessing(t) ==
    /\ unit \in CameraUnits
    /\ cs_pc[t] \in {"csq_check", "csr_check", "csq_fields", "csr_width",
                     "cs_height", "cs_open", "read_frame"}

\* C4: on one source, no two threads are at steps that read or write the
\* source's state at the same time
C4_MutualExclusion ==
    \A t1, t2 \in {1, 2} :
        t1 # t2 => /\ ~(VsAccessing(t1) /\ VsAccessing(t2))
                   /\ ~(CsAccessing(t1) /\ CsAccessing(t2))

\* a frame at exactly the resolution and JPEG quality of one level
SeFrameOfOneLevel(frame) ==
    \E level \in Levels :
        /\ <<frame.width, frame.height>> = QUALITY_THRESHOLDS[level].resolution
        /\ frame.jpeg = SeJpegQuality(level)

\* C5: every frame read_frame returns has the width and the height of the
\* level that was self.quality at the instant of the read, decoded from the
\* file opened for that level; every frame the stream loop encodes has the
\* resolution and the JPEG quality of one single level
C5_NoTornReads ==
    /\ vs_call.result = "frame" =>
          LET frame == vs_call.frame
          IN  /\ frame.quality \in Levels
              /\ <<frame.width, frame.height>> = VsResolution(frame.quality)
              /\ frame.file = VsQualitySuffix(frame.quality)
    /\ se_current_frame # SeNoFrame => SeFrameOfOneLevel(se_current_frame)
    /\ \A l \in Loops : se_loop[l] = "store" => SeFrameOfOneLevel(se_loop_loc[l])

\* C5 happens: a frame has been returned at the low level and the other
\* thread is inside handle_set_quality, with self.width already that of the
\* new level and self.height still that of the old one
C5_Witness ==
    /\ unit = "video_threads"
    /\ vs_call.result = "frame"
    /\ vs_call.frame.quality = "low"
    /\ \E t \in {1, 2} : vs_pc[t] = "vsq_height"
    /\ vs_width # vs_call.frame.width
    /\ vs_height = vs_call.frame.height

\* C6: each VideoStream, CameraStream and StreamEngine has at most one open
\* capture handle, and no handle is dropped without release
C6_AtMostOneHandle ==
    /\ vs_handles <= 1
    /\ cs_handles <= 1
    /\ se_handles <= 1
    /\ ~se_leaked

\* a thread completes read_frame on the VideoStream
VsReadFrameStep == \E t \in {1, 2} : vs_pc[t] = "read_frame" /\ vs_pc'[t] = "idle"

\* read_frame gets past its early returns: lines 120-129
VsReadDue ==
    /\ vs_video.opened
    /\ vs_is_playing
    /\ (vtime - vs_last_frame_time) * vs_playback_speed >= FRAME_INTERVAL * SpeedDen

\* the position is past the last frame of the file
VsAtEnd == vs_video.pos >= vs_total_frames

\* a stream-loop thread reads a frame
SeReadFrameStep == \E l \in Loops : se_loop[l] = "read" /\ se_loop'[l] = "resize"

\* a stream-loop thread has rewound the capture after a failed read
SeRewindStep == \E l \in Loops : se_loop[l] = "rewind" /\ se_loop'[l] = "while"

RoundHalfEven(num, den) ==
    LET floor == IF num >= 0 THEN num \div den
                             ELSE 0 - ((0 - num + den - 1) \div den)
        rest  == num - floor * den
    IN  IF 2 * rest < den THEN floor
        ELSE IF 2 * rest > den THEN floor + 1
        ELSE IF floor % 2 = 0 THEN floor ELSE floor + 1

\* a thread completes handle_seek on an open video
VsSeekStep ==
    /\ \E t \in {1, 2} : vs_pc[t] = "handle_seek" /\ vs_pc'[t] = "idle"
    /\ vs_video.opened

\* C8 as stated: seek(position) sets current_frame_index to
\* round(position * N) clamped to [0, N-1]
C8_SeekRounds ==
    [][ VsSeekStep =>
           vs_current_frame_index' =
              Min(Max(0, RoundHalfEven(vs_call'.position * vs_total_frames, SeekDen)),
                  vs_total_frames - 1) ]_vars

\* C8, amended: seek(position) sets current_frame_index, and the read
\* position, to position * N truncated toward zero and clamped to [0, N-1]:
\* 0 for a position below 0, N-1 for a position of 1 or more, and otherwise
\* the largest index i with i <= position * N; seek(0.5) with N = 300 gives 150
C8_SeekTruncates ==
    [][ VsSeekStep =>
           LET N        == vs_total_frames
               position == vs_call'.position
               index    == vs_current_frame_index'
           IN  /\ N >= 1
               /\ index \in 0..(N - 1)
               /\ vs_video'.pos = index
               /\ position < 0 => index = 0
               /\ position >= SeekDen => index = N - 1
               /\ (position >= 0 /\ position < SeekDen) =>
                     /\ index * SeekDen <= position * N
                     /\ position * N < (index + 1) * SeekDen
               /\ SeekFrameIndex(SeekDen \div 2, 300) = 150 ]_vars

\* C8 happens: a seek to 0.25 of a three-frame file has set the index to 0,
\* where rounding 0.75 would give 1
C8_Witness ==
    /\ unit = "video"
    /\ vs_call.op = "handle_seek"
    /\ vs_call.position = 1
    /\ vs_total_frames = 3
    /\ vs_current_frame_index = 0
    /\ vs_video.pos = 0

----------------------------------------------------------------------------
(* Claims about the stream controller *)

\* the quality of the source self.current_source names
ActiveSourceQuality ==
    IF sc_current_source = "video" THEN vs_quality
    ELSE IF sc_camera_stream # "None" THEN cs_quality
    ELSE "none"

\* a step in which a call of the socket handler returns
HandlerReturn == sc_call' # sc_call

\* C14: when handle_set_quality with a valid level returns, the quality of
\* the active source and the engine's current_quality both equal that level
C14_ManualPathConsistent ==
    [][ (/\ HandlerReturn
         /\ sc_call'.op = "handle_set_quality"
         /\ sc_call'.arg \in Levels) =>
            /\ ActiveSourceQuality' = sc_call'.arg
            /\ current_quality' = sc_call'.arg ]_vars

\* C15: once set_source has returned, the sources of the controller hold at
\* most one open capture handle between them
C15_PreviousHandleReleased ==
    (sc_pc = "idle" /\ sc_call.op = "set_source") => vs_handles + cs_handles <= 1

\* C16: current_source is 'camera' only while camera_stream is a constructed
\* CameraStream, and the frame task never fails on a missing source
C16_AtomicSourceSwap ==
    /\ sc_current_source = "camera" => sc_camera_stream # "None"
    /\ sc_reader # "crashed"

\* C17: while control_mode is 'adaptive' an adaptive loop thread is alive
C17_AdaptiveHasLoop == sc_control_mode = "adaptive" => LoopAlive

\* C18: a loop that is running while control_mode is 'manual' ends, unless the
\* mode is switched back first; it ends where it evaluates its loop condition
C18_CooperativeStop ==
    /\ (sc_control_mode = "manual" /\ LoopAlive)
          ~> (sc_control_mode = "adaptive" \/ ~LoopAlive)
    /\ [][ \A l \in Loops :
              (sc_loop[l] = "while" /\ sc_loop'[l] # "while"
                  /\ sc_control_mode = "manual")
                 => sc_loop'[l] = "exit" ]_vars

\* C18 happens: a loop that has applied a quality in adaptive mode has read
\* the mode 'manual' at its loop condition and is returning
C18_Witness ==
    /\ sc_control_mode = "manual"
    /\ sc_call.op = "set_control_mode"
    /\ sc_call.arg = "manual"
    /\ sc_last_applied_quality[sc_adaptive_quality_thread] # "None"
    /\ sc_loop[sc_adaptive_quality_thread] = "exit"

\* a step of the adaptive loop that changes the quality or the resolution of
\* a source
LoopAppliesStep ==
    /\ \E l \in Loops : sc_loop[l] \in {"apply", "apply_camera"} /\ sc_loop'[l] # sc_loop[l]
    /\ <<vs_quality, vs_width, vs_height, cs_quality, cs_width, cs_height>>' #
          <<vs_quality, vs_width, vs_height, cs_quality, cs_width, cs_height>>

\* C19: the adaptive loop changes the quality or resolution of a source only
\* while control_mode is not 'manual'
C19_ModeGatesLoop == [][ LoopAppliesStep => sc_control_mode # "manual" ]_vars

\* a call with an argument that is missing or not one the method knows
InvalidCall(c) ==
    \/ c.op = "handle_set_quality" /\ c.arg \notin Levels
    \/ c.op = "set_source" /\ c.arg \notin {"camera", "video"}
    \/ c.op = "set_control_mode" /\ c.arg \notin {"manual", "adaptive"}

\* C20: a call of handle_set_quality, set_source or set_control_mode with an
\* unknown or missing argument leaves the controller, the engine and the
\* sources as they were
C20_InvalidInputNoOp ==
    [][ (HandlerReturn /\ InvalidCall(sc_call')) =>
           UNCHANGED <<sc_current_source, sc_camera_stream, sc_control_mode,
                       sc_current_quality, current_quality, last_change_time,
                       quality_history, vs_quality, vs_width, vs_height, vs_video,
                       vs_handles, cs_quality, cs_width, cs_height, cs_camera,
                       cs_handles>> ]_vars

----------------------------------------------------------------------------
(* Claims about failures of the sources *)

\* a thread completes the open_video call of VideoStream.handle_set_quality
VsReopenStep == \E t \in {1, 2} : vs_pc[t] = "vsq_open" /\ vs_pc'[t] = "idle"

\* C21: when a source holds an open capture handle and the handle for the new
\* quality fails to open, the source keeps the handle it had, open
C21_FailedReopenKeepsHandle ==
    [][ (/\ VsReopenStep
         /\ vs_video.opened
         /\ files[VsQualitySuffix(vs_quality)] = 0) =>
            /\ vs_video'.opened
            /\ vs_video'.file = vs_video.file
            /\ vs_handles' = vs_handles ]_vars

\* a thread completes read_frame on the CameraStream
CsReadFrameStep == \E t \in {1, 2} : cs_pc[t] = "read_frame" /\ cs_pc'[t] = "idle"

\* the frame task of the controller completes read_frame on a source that
\* exists and has no open capture
ScReadWithoutHandleStep ==
    /\ sc_reader' # sc_reader
    /\ \/ sc_reader = "gf_camera" /\ sc_camera_stream # "None" /\ ~cs_camera.opened
       \/ sc_reader = "gf_video" /\ ~vs_video.opened

\* C22: read_frame on a source without an open capture returns absent at
\* once and changes nothing; a read that fails on an open capture returns
\* absent and leaves the capture open; and the frame task of the controller
\* goes back to polling after a read on a source without an open capture
C22_GracefulDegradation ==
    [][ /\ (VsReadFrameStep /\ ~vs_video.opened) =>
               /\ vs_call'.result = "absent"
               /\ ~vs_call'.eof
               /\ UNCHANGED <<vs_video, vs_handles, vs_quality, vs_width, vs_height,
                              vs_current_frame_index, vs_last_frame_time>>
        /\ (VsReadFrameStep /\ vs_call'.eof) =>
               /\ vs_call'.result = "absent"
               /\ vs_video'.opened
               /\ vs_handles' = vs_handles
        /\ (CsReadFrameStep /\ ~cs_camera.opened) =>
               /\ cs_call'.result = "absent"
               /\ UNCHANGED <<cs_camera, cs_handles, cs_quality, cs_width, cs_height>>
        /\ ScReadWithoutHandleStep =>
               /\ sc_reader' = "idle"
               /\ UNCHANGED <<sc_current_source, sc_camera_stream, cs_camera,
                              cs_handles, vs_video, vs_handles>> ]_vars

\* C22 happens: read_frame has returned absent on a VideoStream whose reopen
\* had failed
C22_Witness ==
    /\ vs_call.op = "read_frame"
    /\ vs_call.result = "absent"
    /\ ~vs_video.opened
    /\ vs_handles = 0
    /\ vs_is_playing

\* C27: read_frame on a VideoStream that is paused, or less than
\* frame_interval / playback_speed after the last frame it returned, returns
\* absent and leaves current_frame_index, the capture and its position,
\* last_frame_time, quality and resolution unchanged
C27_PausedReadIsPure ==
    [][ (/\ VsReadFrameStep
         /\ \/ ~vs_is_playing
            \/ (vtime - vs_last_frame_time) * vs_playback_speed
                  < FRAME_INTERVAL * SpeedDen) =>
            /\ vs_call'.result = "absent"
            /\ UNCHANGED <<vs_current_frame_index, vs_video, vs_last_frame_time,
                           vs_quality, vs_width, vs_height, vs_total_frames,
                           vs_handles>> ]_vars

\* C27 happens: a playing VideoStream with an open capture has returned a
\* frame and, read again before the next frame is due, has returned absent
C27_Witness ==
    /\ vs_call.op = "read_frame"
    /\ vs_call.result = "absent"
    /\ ~vs_call.eof
    /\ vs_video.opened
    /\ vs_is_playing
    /\ vs_last_frame_time > 0
    /\ (vtime - vs_last_frame_time) * vs_playback_speed < FRAME_INTERVAL * SpeedDen

\* C28: once handle_set_quality(level) with a valid level has returned on a
\* source, the source's quality is level and its width and height are the
\* resolution of level in QUALITY_THRESHOLDS
C28_ResolutionFromThresholds ==
    /\ (/\ unit = "video"
        /\ vs_pc[1] = "idle"
        /\ vs_call.op = "handle_set_quality"
        /\ vs_call.result = "done") =>
           /\ vs_quality = vs_call.level
           /\ <<vs_width, vs_height>> = QUALITY_THRESHOLDS[vs_call.level].resolution
    /\ (/\ unit = "camera"
        /\ cs_pc[1] = "idle"
        /\ cs_call.op = "handle_set_quality"
        /\ cs_call.result \in {"done", "skipped"}) =>
           /\ cs_quality = cs_call.level
           /\ <<cs_width, cs_height>> = QUALITY_THRESHOLDS[cs_call.level].resolution

----------------------------------------------------------------------------
(* Claims about the network monitor and the metric ingress *)

\* the values of one field of the samples recorded so far, in arrival order
RecordedField(key) == [i \in 1..Len(nm_recorded) |-> nm_recorded[i][key]]

\* the most recent min(n, W) values of a sequence, in arrival order
MostRecent(values) ==
    LET k == IF Len(values) < nm_history_size THEN Len(values) ELSE nm_history_size
    IN  [i \in 1..k |-> values[Len(values) - k + i]]

\* value, in hundredths, is a hundredth nearest to the arithmetic mean of window
NearestHundredth(value, window) ==
    LET d == Len(window) * value - 100 * NmSum(window)
    IN  2 * d <= Len(window) /\ -2 * d <= Len(window)

NoRecordInProgress == \A t \in Threads : nm_pc[t] = "idle"

\* C23 (sliding window): after n >= 1 sequential _update_metrics calls each of
\* the three windows holds exactly the most recent min(n, 10) values in arrival
\* order, and get_metrics gives for each field the arithmetic mean of that
\* window rounded to two decimals, the most recent record included.
C23_SlidingWindow ==
    (unit = "network_monitor" /\ NoRecordInProgress /\ Len(nm_recorded) >= 1)
        => /\ nm_bandwidth_history = MostRecent(RecordedField("bandwidth"))
           /\ nm_latency_history = MostRecent(RecordedField("latency"))
           /\ nm_packet_loss_history = MostRecent(RecordedField("packet_loss"))
           /\ NearestHundredth(get_metrics.bandwidth,
                               MostRecent(RecordedField("bandwidth")))
           /\ NearestHundredth(get_metrics.latency,
                               MostRecent(RecordedField("latency")))
           /\ NearestHundredth(get_metrics.packet_loss,
                               MostRecent(RecordedField("packet_loss")))

\* twelve records were made, the first two of them evicted, and the mean of
\* the window is not a whole number
C23_Witness ==
    /\ unit = "network_monitor"
    /\ NoRecordInProgress
    /\ Len(nm_recorded) = nm_history_size + 2
    /\ nm_recorded[1] # nm_recorded[3]
    /\ nm_returned = nm_history_size + 2
    /\ Len(nm_bandwidth_history) = nm_history_size
    /\ get_metrics.bandwidth % 100 # 0

\* the sample made of the i-th entries of the three windows
WindowEntry(i) ==
    [bandwidth   |-> nm_bandwidth_history[i],
     latency     |-> nm_latency_history[i],
     packet_loss |-> nm_packet_loss_history[i]]

\* the three windows hold k entries each
WindowsHold(k) ==
    /\ Len(nm_bandwidth_history) = k
    /\ Len(nm_latency_history) = k
    /\ Len(nm_packet_loss_history) = k

\* C24 (concurrent record safety): under any interleaving of _update_metrics
\* calls of several producers, once the k calls made have all returned, the
\* three windows hold min(k, 10) entries each, the i-th entries of the three
\* windows come from the same sample, as many window entries as records carry
\* each sample while no record is evicted, and the published metrics are the
\* rounded means of the final windows.
C24_ConcurrentRecordSafety ==
    (NoRecordInProgress /\ nm_returned >= 1)
        => LET k == IF nm_returned < nm_history_size THEN nm_returned
                                                     ELSE nm_history_size
           IN  /\ WindowsHold(k)
               /\ \A i \in 1..k : \E j \in 1..Len(nm_recorded) :
                      WindowEntry(i) = nm_recorded[j]
               /\ nm_returned <= nm_history_size
                     => \A sample \in NmMeasurements :
                           Cardinality({i \in 1..k : WindowEntry(i) = sample})
                              = Cardinality({j \in 1..Len(nm_recorded) :
                                                nm_recorded[j] = sample})
               /\ NearestHundredth(get_metrics.bandwidth, nm_bandwidth_history)
               /\ NearestHundredth(get_metrics.latency, nm_latency_history)
               /\ NearestHundredth(get_metrics.packet_loss, nm_packet_loss_history)

\* some of the three fields is missing in the data
SomeFieldMissing(data) == \E key \in DOMAIN data : data[key] = Absent

\* the data with each missing field given its worst-case value
WorstCaseCompleted(data) ==
    [bandwidth   |-> IF data.bandwidth = Absent THEN 0 ELSE data.bandwidth,
     latency     |-> IF data.latency = Absent THEN 999 ELSE data.latency,
     packet_loss |-> IF data.packet_loss = Absent THEN 100 ELSE data.packet_loss]

\* C25 (fail-safe defaults): the sample an ingress handler makes of data with a
\* missing field is the data completed with bandwidth 0, latency 999 and
\* packet_loss 100, and the candidate determine_quality computes for a sample
\* with a missing field is 'low'.
C25_FailSafeDefaults ==
    /\ (in_call.op \in {"handle_network_metrics", "update_manual_metrics"}
            /\ SomeFieldMissing(in_call.data))
          => in_call.metrics = WorstCaseCompleted(in_call.data)
    /\ (call.op = "determine_quality" /\ SomeFieldMissing(call.metrics))
          => call.optimal_quality = "low"

----------------------------------------------------------------------------
(* Claims about shutdown *)

\* C26 (shutdown): once the controller has been stopped, its running flag and
\* the monitor's are false and no capture handle of its sources is open; once
\* StreamEngine.stop has returned, streaming is false and the engine's capture
\* handle is released; no handle is released twice.
C26_Shutdown ==
    /\ (unit \in ControllerUnits /\ sc_call.op = "__del__")
          => /\ ~sc_running
             /\ ~nm_running
             /\ vs_handles = 0
             /\ cs_handles = 0
    /\ (unit = "stream_engine" /\ se_pc[1] = "idle" /\ ~se_streaming)
          => /\ se_handles = 0
             /\ ~se_leaked
    /\ vs_handles >= 0 /\ cs_handles >= 0 /\ se_handles >= 0

\* the adaptive loop runs for good and the engine's decision has settled on level
AdaptiveSettledOn(level) ==
    /\ sc_running
    /\ sc_control_mode = "adaptive"
    /\ LoopAlive
    /\ current_quality = level

\* C29 (adaptive application follows the active source): when from some point
\* on the mode stays adaptive with its loop running and the decided level stays
\* L, the quality of the active source becomes L again and again, also when
\* set_source changed the active source after the loop last applied a level.
C29_AdaptiveFollowsActiveSource ==
    \A level \in Levels :
        <>[]AdaptiveSettledOn(level) => []<>(ActiveSourceQuality = level)

\* the adaptive loop threads that are alive
AliveLoops == {l \in Loops : sc_loop[l] # "dead"}

\* C30 (single adaptive loop): in every reachable state, under any sequence and
\* interleaving of set_control_mode calls, two of them concurrent included, at
\* most one adaptive loop thread is alive.
C30_SingleAdaptiveLoop == Cardinality(AliveLoops) <= 1

----------------------------------------------------------------------------
(* Claims about the frame of the engine's and the sources' operations *)

\* s is what is left of t after entries were dropped at its front
IsSuffix(s, t) ==
    /\ Len(s) <= Len(t)
    /\ \A i \in 1..Len(s) : s[i] = t[Len(t) - Len(s) + i]

\* C33 (unchanged decision is pure): a determine_quality call whose candidate
\* equals current_quality returns current_quality, leaves current_quality and
\* last_change_time unchanged and appends nothing to quality_history.
C33_UnchangedDecisionIsPure ==
    [][ (DetermineStep /\ call'.optimal_quality = current_quality)
           => /\ call'.ret = current_quality
              /\ current_quality' = current_quality
              /\ last_change_time' = last_change_time
              /\ IsSuffix(quality_history', quality_history) ]_vars

\* C33 happens: a call long after the last change decided the current level
C33_Witness ==
    /\ call.op = "determine_quality"
    /\ call.optimal_quality = call.quality
    /\ current_quality = call.quality
    /\ now - last_change_time >= QUALITY_STABILITY_PERIOD
    /\ Len(quality_history) >= 2

\* no thread is inside a method of the engine
EngineQuiescent == \A t \in EngineThreads : ae_pc[t] = "idle"

\* C34: whenever no call on the engine is in progress, quality_history is
\* non-empty and its last entry equals current_quality, also when the
\* adaptive loop's determine_quality interleaves with a manual set_quality.
C34_HistoryTracksLevel ==
    EngineQuiescent
       => /\ Len(quality_history) >= 1
          /\ quality_history[Len(quality_history)] = current_quality

\* C40: determine_quality does not change current_quality earlier than one
\* stability period after the time of the latest change, when that change
\* was made by a manual set_quality: the candidate is suppressed and the
\* operator's level stays.
C40_ManualRestartsTimer ==
    [][ (/\ current_quality' # current_quality
         /\ changes' # <<>>
         /\ changes'[Len(changes')].by = "determine_quality")
           => ~(/\ changes # <<>>
                /\ changes[Len(changes)].by = "set_quality"
                /\ now - changes[Len(changes)].at < QUALITY_STABILITY_PERIOD) ]_vars

\* the stream-loop threads that are alive
SeLoopsAlive == {l \in Loops : se_loop[l] # "free"}

\* C39: a StreamEngine never has more than one stream-loop thread alive and
\* never opens a capture handle while an earlier one is open or dropped
\* without release
C39_SingleStreamLoop ==
    unit \in {"stream_engine", "stream_engine_threads"}
       => /\ Cardinality(SeLoopsAlive) <= 1
          /\ se_handles + (IF se_leaked THEN 1 ELSE 0) <= 1

\* a handler's call that starts and returns in one step
AtomicHandlerReturn == HandlerReturn /\ sc_pc = "idle" /\ sc_pc' = "idle"

\* C32: set_source with the active source and set_control_mode with the
\* current mode leave current_source, control_mode, both sources and their
\* handles unchanged and start no thread
C32_NoOpTransitions ==
    [][ (/\ AtomicHandlerReturn
         /\ \/ sc_call'.op = "set_source" /\ sc_call'.arg = sc_current_source
            \/ sc_call'.op = "set_control_mode" /\ sc_call'.arg = sc_control_mode)
           => /\ UNCHANGED <<sc_current_source, sc_control_mode, sc_camera_stream>>
              /\ UNCHANGED <<videoVars, cameraVars>>
              /\ UNCHANGED <<sc_loop, sc_adaptive_quality_thread>> ]_vars

\* set_control_mode('adaptive') has returned on a controller in adaptive mode
\* and no adaptive loop is alive
C32_Witness ==
    /\ unit = "stream_controller"
    /\ sc_pc = "idle"
    /\ sc_call.op = "set_control_mode"
    /\ sc_call.arg = "adaptive"
    /\ sc_control_mode = "adaptive"
    /\ ~LoopAlive

(* Claims about the position, the speed and the locks of the sources *)

\* C35: while no call is in progress on a VideoStream whose file is open with
\* total_frames = N >= 1, current_frame_index is at least 0 and at most N - 1
C35_FrameIndexRange ==
    (/\ unit \in VideoUnits
     /\ \A t \in Threads : vs_pc[t] = "idle"
     /\ vs_video.opened
     /\ vs_total_frames >= 1)
        => /\ 0 <= vs_current_frame_index
           /\ vs_current_frame_index <= vs_total_frames - 1

\* a read_frame call that is due completes right after a handle_set_quality
\* call that opened the file of the new quality; vs_call.position is the
\* position the capture had reached when the switch began
VsReadAfterSwitch ==
    /\ VsReadFrameStep
    /\ VsReadDue
    /\ vs_call.op = "handle_set_quality"
    /\ vs_call.result = "done"
    /\ vs_call.reopened

\* the steps of a handle_set_quality call on the VideoStream
VsSetQualityStep ==
    \E t \in {1, 2} :
        \/ vs_pc[t] \in {"vsq_fields", "vsq_height", "vsq_open"}
        \/ vs_pc'[t] \in {"vsq_fields", "vsq_height", "vsq_open"}

\* C36 as stated: after a handle_set_quality that opened the new file, the
\* first frame read is the one at the position the old capture had reached,
\* and the switch leaves is_playing and playback_speed unchanged
C36_SwitchKeepsPosition ==
    [][ /\ VsReadAfterSwitch
           => /\ vs_call'.result = "frame"
              /\ vs_call'.frame.index = vs_call.position
        /\ VsSetQualityStep => UNCHANGED <<vs_is_playing, vs_playback_speed>> ]_vars

\* C36, amended: a handle_set_quality that opens the new file puts its read
\* position at the position p the capture had reached, or at the frame
\* count of the new file if that is smaller, and leaves is_playing and
\* playback_speed unchanged; the first frame read afterwards is frame p when
\* the playback speed is at most 1.0x and the new file has more than p frames
C36_SwitchKeepsPositionWithinFile ==
    [][ /\ (VsReopenStep /\ vs_video'.opened)
           => vs_video'.pos = Min(vs_call'.position, files[vs_video'.file])
        /\ (/\ VsReadAfterSwitch
            /\ vs_playback_speed <= SpeedDen
            /\ vs_call.position < files[vs_video.file])
           => /\ vs_call'.result = "frame"
              /\ vs_call'.frame.index = vs_call.position
        /\ VsSetQualityStep => UNCHANGED <<vs_is_playing, vs_playback_speed>> ]_vars

\* C36 happens: the frame read right after a switch of quality at position 1
\* or later is the frame at that position, from the file of the new quality
C36_Witness ==
    /\ unit = "video"
    /\ vs_call.op = "read_frame"
    /\ vs_call.result = "frame"
    /\ vs_call.position >= 1
    /\ vs_call.frame.index = vs_call.position
    /\ vs_call.frame.file = VsQualitySuffix(vs_quality)

\* C38: whatever numbers handle_set_speed is called with, playback_speed is
\* strictly positive and read_frame never fails on the division of
\* frame_interval by playback_speed
C38_SpeedNeverBreaksReading ==
    unit \in VideoUnits
       => /\ vs_playback_speed > 0
          /\ ~(vs_call.op = "read_frame" /\ vs_call.result = "raised")

\* the lines of VideoStream and CameraStream inside a with self.lock block
VsLockedLines == {"vsq_fields", "vsq_height", "vsq_open"} \cup LockedOps

CsLockedLines == {"csq_fields", "csr_width", "cs_height", "cs_open", "read_frame"}

\* a thread holds a source's lock exactly while it is inside a with block of
\* that source, and the holder always has a step to take
LockDiscipline ==
    \A t \in {1, 2} :
        /\ (vs_lock = t) <=> (vs_pc[t] \in VsLockedLines)
        /\ (cs_lock = t) <=> (cs_pc[t] \in CsLockedLines)
        /\ ~(vs_lock = t /\ cs_lock = t)
        /\ vs_lock = t => ENABLED VsInsideLock(t)
        /\ cs_lock = t => ENABLED CsInsideLock(t)

\* C37: a thread holds at most one source lock, only inside a with block,
\* and every lock taken is released again, on the early returns of read_frame
\* too: no thread waits forever for a source lock
C37_DeadlockFreedom ==
    /\ []LockDiscipline
    /\ (vs_lock # NoThread \/ cs_lock # NoThread)
          ~> (vs_lock = NoThread /\ cs_lock = NoThread)

\* C37 happens: read_frame has left through its early return on a paused
\* VideoStream while the other thread is inside a call, and the lock is free
C37_Witness ==
    /\ unit = "video_threads"
    /\ vs_call.op = "read_frame"
    /\ vs_call.result = "absent"
    /\ ~vs_is_playing
    /\ vs_lock = NoThread
    /\ vs_pc[1] = "idle"
    /\ vs_pc[2] = "idle"

(* Claims about the swap of the active source *)

\* set_source releases the capture handle of the CameraStream
SwapReleaseStep ==
    /\ sc_pc = "src_video"
    /\ cs_camera.opened
    /\ ~cs_camera'.opened

\* the frame task enters read_frame on the CameraStream
CameraReadEnterStep == sc_reader = "gf_camera" /\ sc_reader' = "rf_camera"

\* C31: set_source never releases the capture handle of a source while the
\* frame task is inside read_frame on that source, and the frame task never
\* enters read_frame on a handle that set_source has released
C31_NoReleaseUnderRead ==
    [][ /\ ~(SwapReleaseStep /\ sc_reader = "rf_camera")
        /\ ~(CameraReadEnterStep /\ sc_pc = "src_clear" /\ ~cs_camera.opened) ]_vars

----------------------------------------------------------------------------

Init ==
    /\ unit \in {"controller", "controller_scenario", "controller_history",
                 "controller_threads",
                 "video", "video_speeds", "video_threads", "camera", "camera_threads",
                 "stream_engine", "stream_engine_threads",
                 "stream_controller", "stream_controller_readers",
                 "stream_controller_modes", "stream_controller_swap",
                 "network_monitor", "network_monitor_threads", "ingress"}
    /\ InitEngine
    /\ InitVideo
    /\ InitCamera
    /\ InitStreamEngine
    /\ InitStreamController
    /\ InitMonitor

Next ==
    \/ EngineNext
    \/ ConcurrentEngineNext
    \/ VideoNext
    \/ CameraNext
    \/ StreamEngineNext
    \/ ControllerNext
    \/ ConcurrentModeNext
    \/ SourceSwapNext
    \/ MonitorNext
    \/ IngressNext

Spec == Init /\ [][Next]_vars

InitController == Init /\ unit = "controller"

SpecEngine == InitController /\ [][EngineNext]_vars

InitScenario == Init /\ unit = "controller_scenario"

InitEngineThreads == Init /\ unit = "controller_threads"

SpecEngineThreads == InitEngineThreads /\ [][ConcurrentEngineNext]_vars

SpecScenario == InitScenario /\ [][EngineNext]_vars

InitHistory == Init /\ unit = "controller_history"

SpecHistory == InitHistory /\ [][EngineNext]_vars

InitVideoSeq == Init /\ unit = "video"

SpecVideo == InitVideoSeq /\ [][VideoNext]_vars

InitVideoSpeeds == Init /\ unit = "video_speeds"

SpecVideoSpeeds == InitVideoSpeeds /\ [][VideoNext]_vars

InitVideoThreads == Init /\ unit = "video_threads"

SpecVideoThreads == InitVideoThreads /\ [][VideoNext]_vars

\* two threads on one source; a thread inside a with block keeps running
InitSourceThreads == Init /\ unit \in {"video_threads", "camera_threads"}

SpecSourceLocks ==
    /\ InitSourceThreads
    /\ [][VideoNext \/ CameraNext]_vars
    /\ \A t \in {1, 2} : WF_vars(VsInsideLock(t)) /\ WF_vars(CsInsideLock(t))

InitCameraSeq == Init /\ unit = "camera"

SpecCamera == InitCameraSeq /\ [][CameraNext]_vars

InitCameraThreads == Init /\ unit = "camera_threads"

SpecCameraThreads == InitCameraThreads /\ [][CameraNext]_vars

InitStreamEngineUnit == Init /\ unit = "stream_engine"

SpecStreamEngine == InitStreamEngineUnit /\ [][StreamEngineNext]_vars

InitStreamEngineThreads == Init /\ unit = "stream_engine_threads"

SpecStreamEngineThreads == InitStreamEngineThreads /\ [][StreamEngineNext]_vars

\* either source, one caller at a time
InitSequential == Init /\ unit \in {"video", "camera"}

SpecSequential == InitSequential /\ [][VideoNext \/ CameraNext]_vars

\* the file-backed objects, one caller at a time
InitFileSources == Init /\ unit \in {"video", "stream_engine"}

SpecFileSources == InitFileSources /\ [][VideoNext \/ StreamEngineNext]_vars

\* frames read while the quality is being set
InitConcurrentReads == Init /\ unit \in {"video_threads", "stream_engine"}

SpecConcurrentReads == InitConcurrentReads /\ [][VideoNext \/ StreamEngineNext]_vars

\* one StreamController: the socket handler with the adaptive loop, or with
\* the frame task
InitControllerUnits == Init /\ unit \in ControllerUnits

SpecStreamController == InitControllerUnits /\ [][ControllerNext]_vars

InitSourceSwap == Init /\ unit = "stream_controller_swap"

SpecSourceSwap == InitSourceSwap /\ [][SourceSwapNext]_vars

\* the adaptive loop is a thread of its own: the scheduler runs it again and
\* again, so a step it can take is eventually taken
SpecStreamControllerFair == SpecStreamController /\ WF_vars(AdaptiveLoopNext)

\* a VideoStream, a CameraStream or a StreamController
InitDegradation == Init /\ unit \in {"video", "camera"} \cup ControllerUnits

SpecDegradation ==
    InitDegradation /\ [][VideoNext \/ CameraNext \/ ControllerNext]_vars

InitNetworkMonitor == Init /\ unit = "network_monitor"

SpecNetworkMonitor == InitNetworkMonitor /\ [][MonitorNext]_vars

\* one NetworkMonitor with one producer or with two
InitNetworkMonitors ==
    Init /\ unit \in {"network_monitor", "network_monitor_threads"}

SpecNetworkMonitors == InitNetworkMonitors /\ [][MonitorNext]_vars

InitIngress == Init /\ unit = "ingress"

SpecIngress == InitIngress /\ [][IngressNext]_vars

\* the objects stopped at shutdown: a controller, and a StreamEngine with one
\* caller
InitShutdown == Init /\ unit \in ControllerUnits \cup {"stream_engine"}

SpecShutdown == InitShutdown /\ [][ControllerNext \/ StreamEngineNext]_vars

\* one StreamController, with one socket handler or with two of them in
\* set_control_mode
InitControlModes == Init /\ unit \in LoopUnits

SpecControlModes ==
    InitControlModes /\ [][ControllerNext \/ ConcurrentModeNext]_vars

=============================================================================
